---- MODULE Spec2Model ----
(***************************************************************************)
(* Decision layer of the flavor-of-the-day worker: certainty tier policy   *)
(* (worker/src/certainty.js), reliability index (worker/src/reliability.js)*)
(* and the trip-planning engine (worker/src/drive.js, kept here as         *)
(* src/unnamed/part_013).                                                  *)
(*                                                                         *)
(* Numbers: probabilities and certainty caps are hundredths (0.04 is 4),   *)
(* reliability scores are ten-thousandths (0.7 is 7000), dates are day     *)
(* numbers relative to today (0 is today, -1 yesterday), lags are whole    *)
(* hours, distances are tenths of a mile.                                  *)
(***************************************************************************)
EXTENDS Integers, Sequences, FiniteSets, TLC

VARIABLES
    \* certainty.js: the arguments and results of the two pure functions
    opts,           \* argument of determineCertaintyTier
    certaintyTier,  \* its result, or Pending
    capCall,        \* last certaintyCap call: [tier, probability, cap]
    \* reliability.js: one store's rows of the D1 snapshots table, and the
    \* outcome of computeReliability(db, slug) on them
    snapshots,      \* set of rows [date, has_fetched_at, fetched_at]; fetched_at
                    \* is the signed hour offset from the date's UTC midnight
    reliability,    \* [kind |-> Pending | "null" | "record" | "threw", ...]
    \* drive.js: what the trip planner reads, and one request through handleDrive
    flavorCache,    \* slug -> today's entry of the cached schedule [title, description]
    forecasts,      \* slug -> flavor of the top forecast prediction, "" without one
    cadenceDb,      \* env.DB as fetchFlavorCadence reads it: [status, dates]
    storeReliability, \* slug -> tier of the store's saved reliability record
    pastNoon,       \* whether Date.now() is at or past 12:00 UTC of today
    request,        \* the query parameters of the request in flight
    pc,             \* "idle", "fallback" (first pass done, re-run due), "done",
                    \* "threw", or "built" after a buildCard call on its own
    firstPass,      \* results of the first Promise.all, in slug order
    published,      \* slugs whose schedule changed while the request was in flight
    response,       \* the JSON response
    \* metrics.js: one store's flavor history and one request through handleSignals
    flavorRows,     \* the store's rows [flavor, date] of the snapshots table
    signalsRequest, \* [slug, limit, db, count]: the request and what D1 does
    signalsResponse, \* the JSON response
    \* reliability.js: the cron's walk through the stores by getReliabilityBatch
    cron,           \* [db, n, batchSize, start, cursor, batches, wrapped]
    \* metrics.js: one call of queryDatesForSlugs
    bulk,           \* [db, n, failing, result]: the call and the chunks D1 fails
    \* index.js: the KV namespace and the calendar requests in flight
    kv,             \* [count, flavors]: 'meta:fetch-count' and the cached slugs
    fetcher,        \* request -> [pc, slug, count]: position in getFlavorsCached
    upstream        \* [calls, succeeded]: fetchFlavorsFn calls while the counter lives

certVars == <<opts, certaintyTier, capCall>>
relVars == <<snapshots, reliability>>
driveVars == <<flavorCache, forecasts, cadenceDb, storeReliability, pastNoon, request, pc, firstPass,
               published, response>>

sigVars == <<flavorRows, signalsRequest, signalsResponse>>

opsVars == <<cron, bulk, kv, fetcher, upstream>>

vars == <<certVars, relVars, driveVars, sigVars, opsVars>>

Null == -1                  \* null where the value, when present, is >= 0

Pending == "pending"
Absent == "absent"          \* undefined / null / missing property

\* The cron, the bulk date query and the calendar requests at rest.
CronIdle ==
    cron = [db |-> Absent, n |-> 0, batchSize |-> 0, start |-> 0, cursor |-> 0,
            batches |-> <<>>, wrapped |-> FALSE]
BulkIdle == bulk = [db |-> Absent, n |-> 0, failing |-> {}, result |-> [kind |-> Pending]]
BudgetIdle ==
    kv = [count |-> 0, flavors |-> {}] /\ fetcher = <<>> /\ upstream = [calls |-> 0, succeeded |-> 0]
OpsIdle == CronIdle /\ BulkIdle /\ BudgetIdle

Min(a, b) == IF a <= b THEN a ELSE b
Max(a, b) == IF a >= b THEN a ELSE b

(***************************************************************************)
(* certainty.js                                                            *)
(***************************************************************************)
TIERS == [CONFIRMED |-> "confirmed", WATCH |-> "watch",
          ESTIMATED |-> "estimated", NONE |-> "none"]

\* probability > 0.04 and historyDepth >= 30 in determineCertaintyTier
PROBABILITY_THRESHOLD == 4
HISTORY_DEPTH_THRESHOLD == 30
\* the caps of certaintyCap, in hundredths
CAP_CONFIRMED == 100
CAP_WATCH == 70
CAP_ESTIMATED_MAX == 50
CAP_PROBABILITY_SCALE == 5

\* A mutant: a forecast below the probability / depth thresholds is no estimate.
determineCertaintyTierThresholded(o) ==
    IF o.hasConfirmed
    THEN IF o.reliabilityTier = "watch" \/ o.reliabilityTier = "unreliable"
         THEN TIERS.WATCH
         ELSE TIERS.CONFIRMED
    ELSE IF o.hasForecast /\ o.probability > PROBABILITY_THRESHOLD
                          /\ o.historyDepth >= HISTORY_DEPTH_THRESHOLD
         THEN TIERS.ESTIMATED
         ELSE TIERS.NONE

determineCertaintyTier(o) ==
    IF o.hasConfirmed
    THEN IF o.reliabilityTier = "watch" \/ o.reliabilityTier = "unreliable"
         THEN TIERS.WATCH
         ELSE TIERS.CONFIRMED
    ELSE IF o.hasForecast /\ o.probability > PROBABILITY_THRESHOLD
                          /\ o.historyDepth >= HISTORY_DEPTH_THRESHOLD
         THEN TIERS.ESTIMATED
         ELSE IF o.hasForecast
              THEN TIERS.ESTIMATED
              ELSE TIERS.NONE

\* A mutant: the estimate is scaled by the probability but never capped.
certaintyCapUncapped(tier, probability) ==
    CASE tier = TIERS.CONFIRMED -> CAP_CONFIRMED
      [] tier = TIERS.WATCH -> CAP_WATCH
      [] tier = TIERS.ESTIMATED -> probability * CAP_PROBABILITY_SCALE
      [] OTHER -> 0

certaintyCap(tier, probability) ==
    CASE tier = TIERS.CONFIRMED -> CAP_CONFIRMED
      [] tier = TIERS.WATCH -> CAP_WATCH
      [] tier = TIERS.ESTIMATED ->
            Min(CAP_ESTIMATED_MAX, probability * CAP_PROBABILITY_SCALE)
      [] OTHER -> 0

\* Inputs of the certainty policy.
MaxProbability == 100       \* probability 1.0, in hundredths
Probabilities == 0..MaxProbability
HistoryDepths == {0, 29, 30, 31}
ReliabilityTiers == {"confirmed", "watch", "unreliable", Absent}
CapTiers == {"confirmed", "watch", "estimated", "none", "unknown"}

CertOpts == [hasConfirmed : BOOLEAN, hasForecast : BOOLEAN,
             probability : Probabilities, historyDepth : HistoryDepths,
             reliabilityTier : ReliabilityTiers]

NoCapCall == [tier |-> Pending, probability |-> 0, cap |-> 0]

CertIdle ==
    /\ opts = [hasConfirmed |-> FALSE, hasForecast |-> FALSE, probability |-> 0,
               historyDepth |-> 0, reliabilityTier |-> Absent]
    /\ certaintyTier = Pending
    /\ capCall = NoCapCall

CertInit ==
    /\ opts \in CertOpts
    /\ certaintyTier = Pending
    /\ capCall = NoCapCall

DetermineCertaintyTier ==
    /\ certaintyTier = Pending
    /\ certaintyTier' = determineCertaintyTier(opts)
    /\ UNCHANGED <<opts, capCall, relVars, driveVars, sigVars, opsVars>>

CertaintyCap ==
    /\ capCall.tier = Pending
    /\ \E tier \in CapTiers :
          capCall' = [tier |-> tier, probability |-> opts.probability,
                      cap |-> certaintyCap(tier, opts.probability)]
    /\ UNCHANGED <<opts, certaintyTier, relVars, driveVars, sigVars, opsVars>>

CertNext == DetermineCertaintyTier \/ CertaintyCap


(***************************************************************************)
(* reliability.js                                                          *)
(***************************************************************************)
WINDOW_DAYS == 30
TIER_CONFIRMED == 7000      \* 0.7
TIER_WATCH == 4000          \* 0.4
SCORE_ONE == 10000          \* 1.0, and the 4-decimal rounding factor
WEIGHT_MISSING == 4000      \* 0.4
WEIGHT_LAG == 3000          \* 0.3
WEIGHT_RECOVERY == 3000     \* 0.3
LAG_WORST_HOURS == 24
RECOVERY_WORST_DAYS == 7

Abs(x) == IF x < 0 THEN 0 - x ELSE x

RECURSIVE SumSeq(_)
SumSeq(q) == IF q = <<>> THEN 0 ELSE Head(q) + SumSeq(Tail(q))

\* Math.round(num / den) for den > 0: the nearest integer, halves upward.
RoundDiv(num, den) == (2 * num + den) \div (2 * den)

\* The SELECT of computeReliability: WHERE date >= cutoff, cutoff = today - 30 days.
QuerySnapshots(table) == {r \in table : r.date >= 0 - WINDOW_DAYS}

\* allDates: the WINDOW_DAYS calendar dates ending today, oldest first.
allDates == [i \in 1..WINDOW_DAYS |-> 0 - (WINDOW_DAYS - i)]

presentDates(rows) == {r.date : r \in rows}

\* Metric 1: the number of window dates with no snapshot.
missingCount(rows) ==
    Cardinality({i \in 1..WINDOW_DAYS : allDates[i] \notin presentDates(rows)})

\* Metric 2: rows that yield a lag, and the sum of their lags in hours.
LagRows(rows) == {r \in rows : r.has_fetched_at}

RECURSIVE totalLagHours(_)
totalLagHours(rows) ==
    IF rows = {} THEN 0
    ELSE LET r == CHOOSE x \in rows : TRUE
         IN Abs(r.fetched_at) + totalLagHours(rows \ {r})

\* The walk without its last step: a run still open at the window end is lost.
RECURSIVE GapWalkClosedRuns(_, _, _, _)
GapWalkClosedRuns(present, i, currentGap, gapLengths) ==
    IF i > WINDOW_DAYS THEN gapLengths
    ELSE IF allDates[i] \notin present
         THEN GapWalkClosedRuns(present, i + 1, currentGap + 1, gapLengths)
         ELSE IF currentGap > 0
              THEN GapWalkClosedRuns(present, i + 1, 0, Append(gapLengths, currentGap))
              ELSE GapWalkClosedRuns(present, i + 1, 0, gapLengths)

\* Metric 3: the walk over allDates that collects the lengths of the runs of
\* consecutive missing dates, a run still open at the window end included.
RECURSIVE GapWalk(_, _, _, _)
GapWalk(present, i, currentGap, gapLengths) ==
    IF i > WINDOW_DAYS
    THEN IF currentGap > 0 THEN Append(gapLengths, currentGap) ELSE gapLengths
    ELSE IF allDates[i] \notin present
         THEN GapWalk(present, i + 1, currentGap + 1, gapLengths)
         ELSE IF currentGap > 0
              THEN GapWalk(present, i + 1, 0, Append(gapLengths, currentGap))
              ELSE GapWalk(present, i + 1, 0, gapLengths)

gapLengthsOf(rows) == GapWalk(presentDates(rows), 1, 0, <<>>)

\* A mutant: the lag is not normalised to [0,1] and the composite is not clamped.
CompositeScoreUnclamped(missing, lagSum, lagCount, gapSum, gapCount) ==
    LET c == IF lagCount > 0 THEN lagCount ELSE 1
        l == IF lagCount > 0 THEN lagSum ELSE LAG_WORST_HOURS
        g == IF gapCount > 0 THEN gapCount ELSE 1
        y == IF gapCount > 0 THEN Min(gapSum, RECOVERY_WORST_DAYS * g) ELSE 0
        den == WINDOW_DAYS * c * RECOVERY_WORST_DAYS * g
        num == SCORE_ONE * den
               - WEIGHT_MISSING * missing * c * RECOVERY_WORST_DAYS * g
               - (WEIGHT_LAG \div LAG_WORST_HOURS) * l
                    * WINDOW_DAYS * RECOVERY_WORST_DAYS * g
               - WEIGHT_RECOVERY * y * WINDOW_DAYS * c
    IN  RoundDiv(num, den)

\* The composite score, rounded to 4 decimals, in ten-thousandths:
\*   missingRate  = missing / WINDOW_DAYS
\*   lagNorm      = min((lagSum / lagCount) / 24, 1), average lag 24 without lags
\*   recoveryNorm = min((gapSum / gapCount) / 7, 1), 0 without gaps
\*   score = max(0, min(1, 1 - (0.4 missingRate + 0.3 lagNorm + 0.3 recoveryNorm)))
\* computed exactly over the common denominator den.
CompositeScore(missing, lagSum, lagCount, gapSum, gapCount) ==
    LET c == IF lagCount > 0 THEN lagCount ELSE 1
        l == IF lagCount > 0 THEN lagSum ELSE LAG_WORST_HOURS
        x == Min(l, LAG_WORST_HOURS * c)
        g == IF gapCount > 0 THEN gapCount ELSE 1
        y == IF gapCount > 0 THEN Min(gapSum, RECOVERY_WORST_DAYS * g) ELSE 0
        den == WINDOW_DAYS * c * RECOVERY_WORST_DAYS * g
        num == SCORE_ONE * den
               - WEIGHT_MISSING * missing * c * RECOVERY_WORST_DAYS * g
               - (WEIGHT_LAG \div LAG_WORST_HOURS) * x
                    * WINDOW_DAYS * RECOVERY_WORST_DAYS * g
               - WEIGHT_RECOVERY * y * WINDOW_DAYS * c
    IN  RoundDiv(Max(0, Min(SCORE_ONE * den, num)), den)

\* A mutant: the tier boundaries are exclusive.
ReliabilityTierStrict(roundedScore) ==
    IF roundedScore > TIER_CONFIRMED THEN "confirmed"
    ELSE IF roundedScore > TIER_WATCH THEN "watch"
    ELSE "unreliable"

ReliabilityTier(roundedScore) ==
    IF roundedScore >= TIER_CONFIRMED THEN "confirmed"
    ELSE IF roundedScore >= TIER_WATCH THEN "watch"
    ELSE "unreliable"

\* computeReliability(db, slug). db is "bound", "failing" (the query rejects)
\* or Absent (no binding).
computeReliability(db, table) ==
    IF db = Absent THEN [kind |-> "null"]
    ELSE IF db = "failing" THEN [kind |-> "threw"]
    ELSE LET rows == QuerySnapshots(table)
             gaps == gapLengthsOf(rows)
             score == CompositeScore(missingCount(rows),
                                     totalLagHours(LagRows(rows)),
                                     Cardinality(LagRows(rows)),
                                     SumSeq(gaps), Len(gaps))
         IN  IF rows = {} THEN [kind |-> "null"]
             ELSE [kind |-> "record",
                   missing_window_rate |->
                       RoundDiv(SCORE_ONE * missingCount(rows), WINDOW_DAYS),
                   gap_count |-> Len(gaps),
                   reliability_score |-> score,
                   reliability_tier |-> ReliabilityTier(score),
                   window_days |-> WINDOW_DAYS]

\* Bounds of the snapshot histories.
MaxHoles == 2               \* missing dates in a densely covered window
MaxRows == 2                \* rows of a sparsely covered store
MaxBackfill == 3            \* missing dates of a window that is being backfilled
MaxPastDays == 2            \* days before the window a row may be dated
MaxFutureDays == 1          \* days after today a row may be dated
InsertDates == (0 - (WINDOW_DAYS - 1 + MaxPastDays))..MaxFutureDays
FixtureLags == {4, 24, 48}
InsertLags == {[has_fetched_at |-> FALSE, fetched_at |-> 0],
               [has_fetched_at |-> TRUE, fetched_at |-> 0 - 30],
               [has_fetched_at |-> TRUE, fetched_at |-> 10]}
DbStates == {"bound", "failing", Absent}

WindowDates == {allDates[i] : i \in 1..WINDOW_DAYS}

\* The sets of at most MaxHoles window dates.
HoleSets == {{h[i] : i \in 1..MaxHoles} \cap WindowDates :
                h \in [1..MaxHoles -> WindowDates \cup {1}]}

\* A window covered on every date but the holes, each row fetched lag hours
\* after its date's midnight.
DenseTable(holes, lag) ==
    {[date |-> d, has_fetched_at |-> TRUE, fetched_at |-> lag] :
        d \in WindowDates \ holes}

RelIdle ==
    /\ snapshots = {}
    /\ reliability = [kind |-> Pending]

\* Outages: a day missed next to a longer run of missed days.
OutageSets ==
    {{0 - 25} \cup (0 - 12)..(0 - 11), {0 - 25} \cup (0 - 12)..(0 - 6),
     (0 - 29)..(0 - 26) \cup {0}}

RelInit ==
    /\ \/ snapshots = {}
       \/ \E holes \in HoleSets \cup OutageSets, lag \in FixtureLags :
             snapshots = DenseTable(holes, lag)
    /\ reliability = [kind |-> Pending]

\* The ingestion collaborator appends the row of a date not yet captured.
InsertSnapshot ==
    /\ reliability.kind = Pending
    /\ Cardinality(snapshots) < MaxRows
    /\ \E d \in InsertDates \ presentDates(snapshots), lag \in InsertLags :
          snapshots' = snapshots \cup {[date |-> d] @@ lag}
    /\ UNCHANGED <<reliability, certVars, driveVars, sigVars, opsVars>>

\* The ingestion collaborator captures a window date that was missing, as long
\* after the date's midnight as the store's rows are on average.
BackfillSnapshot ==
    /\ reliability.kind = Pending
    /\ snapshots # {}
    /\ Cardinality(WindowDates \ presentDates(snapshots)) <= MaxBackfill
    /\ LagRows(snapshots) = snapshots
    /\ totalLagHours(snapshots) % Cardinality(snapshots) = 0
    /\ \E d \in WindowDates \ presentDates(snapshots) :
          snapshots' = snapshots \cup
              {[date |-> d, has_fetched_at |-> TRUE,
                fetched_at |-> totalLagHours(snapshots) \div Cardinality(snapshots)]}
    /\ UNCHANGED <<reliability, certVars, driveVars, sigVars, opsVars>>

ComputeReliability ==
    /\ reliability.kind = Pending
    /\ \E db \in DbStates :
          reliability' = computeReliability(db, snapshots) @@ [db |-> db]
    /\ UNCHANGED <<snapshots, certVars, driveVars, sigVars, opsVars>>

RelNext == InsertSnapshot \/ BackfillSnapshot \/ ComputeReliability

(***************************************************************************)
(* flavor-tags.js and flavor-colors.js: content tags of a flavor.  A text  *)
(* is the set of the pattern keywords it contains.                         *)
(***************************************************************************)
NoProfileEntry == [base |-> "", ribbon |-> "", toppings |-> {}]
DEFAULT_PROFILE == [base |-> "vanilla", ribbon |-> "", toppings |-> {}]

\* The entries of FLAVOR_PROFILES for the flavors of the model.
FLAVOR_PROFILES(key) ==
    CASE key = "turtle" ->
            [base |-> "vanilla", ribbon |-> "caramel", toppings |-> {"dove", "pecan"}]
      [] key = "raspberry cheesecake" ->
            [base |-> "cheesecake", ribbon |-> "",
             toppings |-> {"raspberry", "cheesecake_bits"}]
      [] key = "mint explosion" ->
            [base |-> "mint", ribbon |-> "", toppings |-> {"oreo", "andes", "dove"}]
      [] OTHER -> NoProfileEntry

\* The keywords of a flavor name (lower case).
NameWords(name) ==
    CASE name = "Vanilla" -> {"vanilla"}
      [] name = "Turtle" -> {"turtle"}
      [] name = "Raspberry Cheesecake" -> {"raspberry", "cheesecake"}
      [] name = "Mint Explosion" -> {"mint"}
      [] OTHER -> {}

LowerCase(name) ==
    CASE name = "Vanilla" -> "vanilla"
      [] name = "Turtle" -> "turtle"
      [] name = "Raspberry Cheesecake" -> "raspberry cheesecake"
      [] name = "Mint Explosion" -> "mint explosion"
      [] name = "NUTS" -> "nuts"
      [] name = "RARITY" -> "rarity"
      [] OTHER -> name

\* getFlavorProfile: exact match, then the keyword fallback, then the default.
getFlavorProfile(name) ==
    LET key == LowerCase(name)
        words == NameWords(name)
        plain(base) == [base |-> base, ribbon |-> "", toppings |-> {}]
    IN  IF name = "" THEN DEFAULT_PROFILE
        ELSE IF FLAVOR_PROFILES(key) # NoProfileEntry THEN FLAVOR_PROFILES(key)
        ELSE IF "mint" \in words THEN plain("mint")
        ELSE IF "dark choc" \in words THEN plain("dark_chocolate")
        ELSE IF "chocolate" \in words \/ "cocoa" \in words THEN plain("chocolate")
        ELSE IF "strawberry" \in words THEN plain("strawberry")
        ELSE IF "cheesecake" \in words THEN plain("cheesecake")
        ELSE IF "caramel" \in words
             THEN [base |-> "caramel", ribbon |-> "caramel", toppings |-> {}]
        ELSE IF "peach" \in words THEN plain("peach")
        ELSE IF "butter pecan" \in words
             THEN [base |-> "butter_pecan", ribbon |-> "", toppings |-> {"pecan"}]
        ELSE IF "vanilla" \in words THEN plain("vanilla")
        ELSE DEFAULT_PROFILE

BASE_TO_TAGS(base) ==
    CASE base \in {"chocolate", "chocolate_custard", "dark_chocolate"} ->
            {"chocolate", "rich"}
      [] base \in {"mint", "mint_andes"} -> {"mint", "bright"}
      [] base \in {"strawberry", "peach", "lemon", "blackberry"} -> {"fruit", "bright"}
      [] base = "caramel" -> {"caramel", "rich"}
      [] base = "cheesecake" -> {"cheesecake", "rich"}
      [] OTHER -> {}

RIBBON_TO_TAGS(ribbon) ==
    CASE ribbon = "caramel" -> {"caramel"}
      [] ribbon = "peanut_butter" -> {"nuts", "rich", "kids"}
      [] ribbon = "marshmallow" -> {"kids"}
      [] ribbon \in {"chocolate_syrup", "fudge"} -> {"chocolate", "rich"}
      [] OTHER -> {}

TOPPING_TO_TAGS(topping) ==
    CASE topping \in {"pecan", "cashew"} -> {"nuts", "crunchy"}
      [] topping \in {"heath", "butterfinger"} -> {"crunchy", "kids"}
      [] topping \in {"cookie_dough", "oreo"} -> {"cookie", "kids"}
      [] topping = "brownie" -> {"cookie", "chocolate", "kids"}
      [] topping = "pie_crust" -> {"pie_crust"}
      [] topping \in {"strawberry_bits", "raspberry", "peach_bits", "blueberry"} ->
            {"fruit", "bright"}
      [] topping = "andes" -> {"mint", "bright"}
      [] topping = "reeses" -> {"nuts", "kids"}
      [] topping = "snickers" -> {"kids", "crunchy"}
      [] topping = "m_and_m" -> {"kids"}
      [] topping = "cheesecake_bits" -> {"cheesecake"}
      [] OTHER -> {}

\* The tags the *_PATTERN regular expressions give a text that contains word.
PatternTags(word) ==
    CASE word = "pecan" -> {"nuts", "crunchy"}
      [] word = "cheesecake" -> {"cheesecake"}
      [] word = "chocolate" -> {"chocolate"}
      [] word = "mocha" -> {"chocolate", "coffee"}
      [] word = "strawberry" -> {"fruit", "bright"}
      [] word = "raspberry" -> {"fruit", "bright"}
      [] word = "caramel" -> {"caramel"}
      [] word = "mint" -> {"mint", "bright"}
      [] word = "peppermint" -> {"mint", "seasonal"}
      [] word = "cookie" -> {"kids", "crunchy", "cookie"}
      [] OTHER -> {}

extractFlavorTags(flavorName, description) ==
    LET profile == getFlavorProfile(flavorName)
        text == NameWords(flavorName) \cup description
    IN  BASE_TO_TAGS(profile.base)
        \cup RIBBON_TO_TAGS(profile.ribbon)
        \cup UNION {TOPPING_TO_TAGS(t) : t \in profile.toppings}
        \cup UNION {PatternTags(w) : w \in text}

buildDealbreakers(excludedTags) ==
    LET has(t) == \E i \in 1..Len(excludedTags) : excludedTags[i] = t
    IN  (IF has("nuts") THEN <<"Contains nuts">> ELSE <<>>)
        \o (IF has("cheesecake") THEN <<"Contains cheesecake">> ELSE <<>>)

(***************************************************************************)
(* drive.js (src/unnamed/part_013)                                         *)
(***************************************************************************)
SORT_MODES == {"match", "detour", "rarity", "eta"}
HARD_EXCLUDE_TAGS == {"nuts", "cheesecake"}
BOOST_TAGS == {"chocolate", "fruit", "caramel", "mint", "coffee", "seasonal", "kids"}

BASE_SCORE == 50
BOOST_POINTS == 12
AVOID_POINTS == 8
RARITY_DAYS_PER_POINT == 7
RARITY_BONUS_MAX == 18
NOVELTY_BONUS == 10
NOVELTY_DAYS == 30
DETOUR_PENALTY_MAX == 20
SCORE_MAX == 100
BUCKET_GREAT == 70
BUCKET_OK == 45
ETA_MIN == 3
MIN_SLUGS == 2
MAX_SLUGS == 5
UNKNOWN_SORT_KEY == 9999

\* valid-slugs.js and brand-registry.js, as far as the model's stores go.
Stores == {"mt-horeb", "verona"}
VALID_SLUGS ==
    Stores \cup {"kopps-greenfield", "middleton", "madison-todd-drive", "waunakee", "sun-prairie"}
getBrandForSlug(slug) == IF slug = "kopps-greenfield" THEN "Kopp's" ELSE "Culver's"

\* clamp without its upper limit.
clampLowerOnly(value, min, max) == Max(min, value)

clamp(value, min, max) == Max(min, Min(max, value))

\* parseCsvList: the cleaned, distinct parts of a comma-separated parameter that
\* are in allowSet, in order. raw is the list of the parts.
RECURSIVE parseCsvWalk(_, _, _, _)
parseCsvWalk(raw, allowSet, seen, values) ==
    IF raw = <<>> THEN values
    ELSE LET cleaned == LowerCase(Head(raw))
         IN  IF cleaned = "" \/ cleaned \in seen \/ cleaned \notin allowSet
             THEN parseCsvWalk(Tail(raw), allowSet, seen, values)
             ELSE parseCsvWalk(Tail(raw), allowSet, seen \cup {cleaned},
                               Append(values, cleaned))

parseCsvList(raw, allowSet) == parseCsvWalk(raw, allowSet, {}, <<>>)

RECURSIVE parseSlugsWalk(_, _, _, _)
parseSlugsWalk(raw, validSlugs, seen, slugs) ==
    IF raw = <<>> THEN slugs
    ELSE LET slug == Head(raw)
         IN  IF slug = "" \/ slug \in seen
             THEN parseSlugsWalk(Tail(raw), validSlugs, seen, slugs)
             ELSE IF slug \notin validSlugs \/ getBrandForSlug(slug) # "Culver's"
                  THEN parseSlugsWalk(Tail(raw), validSlugs, seen \cup {slug}, slugs)
                  ELSE parseSlugsWalk(Tail(raw), validSlugs, seen \cup {slug},
                                      Append(slugs, slug))

parseSlugs(raw, validSlugs) == parseSlugsWalk(raw, validSlugs, {}, <<>>)

\* last_seen is <<>> for null and <<date>> otherwise.
NoCadence(novelty) ==
    [appearances |-> 0, avg_gap_days |-> Null, last_seen |-> <<>>,
     days_since_last |-> Null, novelty |-> novelty]

RECURSIVE totalGap(_)
totalGap(dates) ==
    IF Len(dates) < 2 THEN 0
    ELSE Max(0, dates[1] - dates[2]) + totalGap(Tail(dates))

\* fetchFlavorCadence(db, slug, flavorName). db is [status, dates]: status is
\* "bound", "failing" (the query rejects) or Absent, dates gives the snapshot
\* dates of <<slug, flavor>>, newest first. afternoon is whether Date.now() is
\* at or past noon UTC, which decides the rounding of the age in days.
fetchFlavorCadence(db, slug, flavorName, afternoon) ==
    IF db.status = Absent \/ flavorName = "" THEN NoCadence(FALSE)
    ELSE IF db.status = "failing" THEN NoCadence(FALSE)
    ELSE LET dates == db.dates[<<slug, flavorName>>]
         IN  IF Len(dates) = 0 THEN NoCadence(TRUE)
             ELSE LET lastSeen == dates[1]
                      daysSinceLast ==
                          Max(0, (0 - lastSeen) + (IF afternoon THEN 1 ELSE 0))
                  IN  [appearances |-> Len(dates),
                       avg_gap_days |-> IF Len(dates) > 1
                                        THEN RoundDiv(totalGap(dates), Len(dates) - 1)
                                        ELSE Null,
                       last_seen |-> <<lastSeen>>,
                       days_since_last |-> daysSinceLast,
                       novelty |-> daysSinceLast >= NOVELTY_DAYS]

scoreBucket(score) ==
    IF score >= BUCKET_GREAT THEN "great"
    ELSE IF score >= BUCKET_OK THEN "ok"
    ELSE "pass"

\* distanceMiles is in tenths of a mile, Null when unknown.
formatEtaMinutes(distanceMiles) ==
    IF distanceMiles = Null THEN Null
    ELSE Max(ETA_MIN, RoundDiv(22 * distanceMiles + 200, 100))

FilterSeq(list, set) == SelectSeq(list, LAMBDA t : t \in set)

\* What getFlavorsCached finds for today at a store; title "" when the schedule
\* has no entry for today.  status "unavailable": the call rejects.
NoEntry == [status |-> "ok", title |-> "", description |-> {}]
Unavailable == [status |-> "unavailable", title |-> "", description |-> {}]
Entry(title, description) ==
    [status |-> "ok", title |-> title, description |-> description]

\* The request's location and the haversine distance to a store's coordinates,
\* in tenths of a mile; drive.js reads both from modules kept elsewhere.
NoLocation == ""
NearMadison == "43.07,-89.40"
STORE_DISTANCE(slug) ==
    CASE slug = "mt-horeb" -> 12
      [] slug = "verona" -> 187
      [] OTHER -> Null

parseLocation(raw) == IF raw = NearMadison THEN raw ELSE NoLocation


\* One result of buildCard. env is [FLAVOR_CACHE, FORECAST, DB, afternoon];
\* distanceMiles is the haversine distance or Null.  The card's name, address,
\* coordinates, date, vibe, recommendation and tomorrow fields are left out.
buildCard(slug, env, distanceMiles, excludeTags, boostTags, avoidTags, includeEstimated, allowEstimatedFallback) ==
    LET etaMinutes == formatEtaMinutes(distanceMiles)
        flavorData == env.FLAVOR_CACHE[slug]
        todayEntry == flavorData.title # ""
        useForecast == /\ ~todayEntry
                       /\ (includeEstimated \/ allowEstimatedFallback)
                       /\ env.FORECAST[slug] # ""
        flavorName == IF useForecast THEN env.FORECAST[slug] ELSE flavorData.title
        description == IF useForecast THEN {} ELSE flavorData.description
        source == IF useForecast THEN "estimated" ELSE "confirmed"
        cardTier == IF useForecast THEN "estimated" ELSE "confirmed"
        tags == extractFlavorTags(flavorName, description)
        matchedExcluded == FilterSeq(excludeTags, tags \cap HARD_EXCLUDE_TAGS)
        matchedBoostTags == FilterSeq(boostTags, tags)
        matchedAvoidTags == FilterSeq(avoidTags, tags)
        dealbreakers == buildDealbreakers(matchedExcluded)
        rarity == fetchFlavorCadence(env.DB, slug, flavorName, env.afternoon)
        rarityBonus ==
            clamp(RoundDiv(IF rarity.avg_gap_days = Null THEN 0
                           ELSE rarity.avg_gap_days, RARITY_DAYS_PER_POINT),
                  0, RARITY_BONUS_MAX)
        noveltyBonus == IF rarity.novelty THEN NOVELTY_BONUS ELSE 0
        detourPenalty ==
            IF distanceMiles = Null THEN 0
            ELSE clamp(RoundDiv(15 * distanceMiles, 100), 0, DETOUR_PENALTY_MAX)
        scoreBeforeClamp ==
            BASE_SCORE + Len(matchedBoostTags) * BOOST_POINTS + rarityBonus
            + noveltyBonus - Len(matchedAvoidTags) * AVOID_POINTS - detourPenalty
        score == clamp(scoreBeforeClamp, 0, SCORE_MAX)
        hardPass == Len(matchedExcluded) > 0
        card ==
            [slug |-> slug, flavor |-> flavorName, description |-> description,
             source |-> source, certainty_tier |-> cardTier, tags |-> tags,
             dealbreakers |-> dealbreakers, distance_miles |-> distanceMiles,
             eta_minutes |-> etaMinutes,
             rarity |-> [avg_gap_days |-> rarity.avg_gap_days,
                         days_since_last |-> rarity.days_since_last,
                         last_seen |-> rarity.last_seen,
                         novelty_bonus_applied |-> rarity.novelty],
             score |-> score,
             score_breakdown |->
                 [base |-> BASE_SCORE,
                  boost |-> Len(matchedBoostTags) * BOOST_POINTS,
                  rarity_bonus |-> rarityBonus, novelty_bonus |-> noveltyBonus,
                  avoid_penalty |-> Len(matchedAvoidTags) * AVOID_POINTS,
                  detour_penalty |-> detourPenalty,
                  matched_boost_tags |-> matchedBoostTags,
                  matched_avoid_tags |-> matchedAvoidTags,
                  matched_exclude_tags |-> matchedExcluded],
             map_bucket |-> IF hardPass THEN "hard_pass" ELSE scoreBucket(score)]
    IN  IF flavorData.status = "unavailable" THEN [type |-> "threw"]
        ELSE IF flavorName = ""
        THEN [type |-> "excluded",
              value |-> [slug |-> slug, reasons |-> <<"No confirmed flavor today.">>,
                         reason_codes |-> <<"no_confirmed">>, source |-> "none"]]
        ELSE IF hardPass
        THEN [type |-> "excluded",
              value |-> [slug |-> card.slug, flavor |-> card.flavor,
                         reasons |-> card.dealbreakers,
                         reason_codes |-> matchedExcluded, source |-> card.source]]
        ELSE [type |-> "card", value |-> card]

\* The key list.sort compares by, smallest first; distance_miles is in tenths
\* of a mile, and so is the 9999 miles that stand for an unknown distance.
SortKey(card, sortMode) ==
    CASE sortMode = "detour" ->
            IF card.distance_miles = Null THEN 10 * UNKNOWN_SORT_KEY
            ELSE card.distance_miles
      [] sortMode = "rarity" ->
            0 - (IF card.rarity.avg_gap_days = Null THEN -1
                 ELSE card.rarity.avg_gap_days)
      [] sortMode = "eta" ->
            IF card.eta_minutes = Null THEN UNKNOWN_SORT_KEY ELSE card.eta_minutes
      [] OTHER -> 0 - card.score

\* Insert card after the cards whose key is not larger (the sort is stable).
RECURSIVE InsertByKey(_, _, _)
InsertByKey(sorted, card, sortMode) ==
    IF sorted = <<>> THEN <<card>>
    ELSE IF SortKey(Head(sorted), sortMode) <= SortKey(card, sortMode)
         THEN <<Head(sorted)>> \o InsertByKey(Tail(sorted), card, sortMode)
         ELSE <<card>> \o sorted

RECURSIVE sortCards(_, _)
sortCards(cards, sortMode) ==
    IF cards = <<>> THEN <<>>
    ELSE InsertByKey(sortCards(SubSeq(cards, 1, Len(cards) - 1), sortMode),
                     cards[Len(cards)], sortMode)

FlavorNames == {"Vanilla", "Turtle", "Raspberry Cheesecake", "Mint Explosion"}

\* env.DB as fetchFlavorCadence reads it: history gives the snapshot dates of
\* every <<slug, flavor>> pair, newest first.
Database(status, history) == [status |-> status, dates |-> history]

\* Every pair with the same dates.
History(dates) == [p \in Stores \X FlavorNames |-> dates]

NoHistory == History(<<>>)

\* The history behind the trip-planning requests of the model.
DRIVE_HISTORY ==
    [p \in Stores \X FlavorNames |->
        CASE p = <<"mt-horeb", "Turtle">> -> <<-29, -36>>
          [] p = <<"mt-horeb", "Vanilla">> -> <<0, -1, -4>>
          [] p = <<"verona", "Raspberry Cheesecake">> -> <<-60>>
          [] OTHER -> <<>>]

\* The saved reliability tiers behind the trip-planning requests of the model.
DRIVE_RELIABILITY ==
    [s \in Stores |-> IF s = "mt-horeb" THEN "watch" ELSE "confirmed"]

NoRequest ==
    [slugs |-> <<>>, location |-> NoLocation, exclude |-> <<>>, boost |-> <<>>,
     avoid |-> <<>>, sort |-> "", include_estimated |-> ""]
NoResponse == [status |-> 0]

\* The raw query parameters, each comma-separated list split into its parts.
SlugParams ==
    {<<"mt-horeb", "verona">>,
     <<"verona", "mt-horeb", "verona", "kopps-greenfield", "nowhere", "">>,
     <<"mt-horeb", "kopps-greenfield">>}
ExcludeParams == {<<>>, <<"NUTS">>, <<"chocolate", "cheesecake", "nuts", "cheesecake">>}
BoostParams == {<<>>, <<"caramel", "fruit", "rich">>}
AvoidParams == {<<>>, <<"fruit">>}
IncludeEstimatedParams == {"", "1"}
SortParams == {"", "detour"}
LocationParams == {NoLocation, NearMadison, "madison"}
\* Every combination of these, and requests at the edges of the validation:
\* no slug, one slug twice, six identifiers of which two are valid stores, six
\* valid stores, and sort modes outside SORT_MODES or in capitals.
Requests ==
    [slugs : SlugParams, location : LocationParams, exclude : ExcludeParams,
     boost : BoostParams, avoid : AvoidParams, sort : SortParams,
     include_estimated : IncludeEstimatedParams]
    \cup {[NoRequest EXCEPT !.slugs = slugs] :
             slugs \in {<<>>, <<"mt-horeb", "mt-horeb">>,
                        <<"mt-horeb", "nowhere", "verona", "elsewhere", "kopps-greenfield",
                          "anywhere">>,
                        <<"mt-horeb", "verona", "middleton", "madison-todd-drive",
                          "waunakee", "sun-prairie">>}}
    \cup {[NoRequest EXCEPT !.slugs = <<"mt-horeb", "verona">>, !.sort = sort,
                            !.location = location] :
             sort \in {"nearest", "RARITY", "eta"}, location \in {NoLocation, NearMadison}}

TodayEntries ==
    {NoEntry, Unavailable, Entry("Vanilla", {}), Entry("Turtle", {"pecan"})}
ForecastFlavors == {"", "Vanilla", "Raspberry Cheesecake"}

DriveIdle ==
    /\ flavorCache = [s \in Stores |-> NoEntry]
    /\ forecasts = [s \in Stores |-> ""]
    /\ cadenceDb = Database(Absent, NoHistory)
    /\ storeReliability = [s \in Stores |-> Absent]
    /\ pastNoon = FALSE
    /\ request = NoRequest
    /\ pc = "idle"
    /\ firstPass = <<>>
    /\ published = {}
    /\ response = NoResponse

DriveInit ==
    /\ flavorCache \in [Stores -> TodayEntries]
    /\ forecasts \in [Stores -> ForecastFlavors]
    /\ cadenceDb = Database("bound", DRIVE_HISTORY)
    /\ storeReliability = DRIVE_RELIABILITY
    /\ pastNoon \in BOOLEAN
    /\ request = NoRequest
    /\ pc = "idle"
    /\ firstPass = <<>>
    /\ published = {}
    /\ response = NoResponse

\* The parsed request, as handleDrive computes it before the first pass.
ParsedQuery(req) ==
    [slugs |-> parseSlugs(req.slugs, VALID_SLUGS),
     location |-> parseLocation(req.location),
     exclude |-> parseCsvList(req.exclude, HARD_EXCLUDE_TAGS),
     boost |-> parseCsvList(req.boost, BOOST_TAGS),
     avoid |-> parseCsvList(req.avoid, BOOST_TAGS),
     sort |-> IF LowerCase(req.sort) \in SORT_MODES THEN LowerCase(req.sort)
              ELSE "match",
     include_estimated |-> req.include_estimated = "1"]

Env == [FLAVOR_CACHE |-> flavorCache, FORECAST |-> forecasts, DB |-> cadenceDb,
        afternoon |-> pastNoon]

\* One Promise.all over the slugs: the results in slug order.
BuildCards(query, env, includeEstimated, allowEstimatedFallback) ==
    [i \in 1..Len(query.slugs) |->
        buildCard(query.slugs[i], env,
                  IF query.location = NoLocation THEN Null
                  ELSE STORE_DISTANCE(query.slugs[i]),
                  query.exclude, query.boost, query.avoid,
                  includeEstimated, allowEstimatedFallback)]

Rejected(results) == \E i \in 1..Len(results) : results[i].type = "threw"

ValuesOf(results, type) ==
    LET rows == SelectSeq(results, LAMBDA row : row.type = type)
    IN  [i \in 1..Len(rows) |-> rows[i].value]

\* The fallback condition never met: one pass only.
NeedsFallbackNever(results, includeEstimated) == FALSE

\* The fallback condition without its look at the first pass's cards.
NeedsFallbackUnlessRequested(results, includeEstimated) == ~includeEstimated

\* The condition of the estimated fallback pass.
NeedsFallback(results, includeEstimated) ==
    LET cards == ValuesOf(results, "card")
        hasConfirmed == \E i \in 1..Len(cards) : cards[i].source = "confirmed"
    IN  ~hasConfirmed /\ ~includeEstimated

\* The 200 response; the nearby leaderboard, which comes from the planner,
\* the radius that only feeds it, and generated_at are left out.
DriveResponse(query, cards, excluded) ==
    [status |-> 200, query |-> query, cards |-> sortCards(cards, query.sort),
     excluded |-> excluded]

\* handleDrive up to its second await: validation and the first pass.
HandleDrive ==
    /\ pc = "idle"
    /\ \E req \in Requests :
        LET query == ParsedQuery(req)
            results == BuildCards(query, Env, query.include_estimated, FALSE)
        IN  /\ request' = req
            /\ IF Len(query.slugs) < MIN_SLUGS \/ Len(query.slugs) > MAX_SLUGS
               THEN /\ response' = [status |-> 400, error |-> "slugs"]
                    /\ pc' = "done"
                    /\ firstPass' = firstPass
               ELSE IF req.location # NoLocation /\ query.location = NoLocation
               THEN /\ response' = [status |-> 400, error |-> "location"]
                    /\ pc' = "done"
                    /\ firstPass' = firstPass
               ELSE IF Rejected(results)
               THEN /\ pc' = "threw"
                    /\ UNCHANGED <<response, firstPass>>
               ELSE IF NeedsFallback(results, query.include_estimated)
               THEN /\ pc' = "fallback"
                    /\ firstPass' = results
                    /\ UNCHANGED response
               ELSE /\ pc' = "done"
                    /\ firstPass' = results
                    /\ response' = DriveResponse(query, ValuesOf(results, "card"),
                                                 ValuesOf(results, "excluded"))
    /\ UNCHANGED <<flavorCache, forecasts, cadenceDb, storeReliability, pastNoon, published>>
    /\ UNCHANGED <<certVars, relVars, sigVars, opsVars>>

\* Today's flavor of a store is published while the request waits for its
\* fallback pass.
PublishSchedule ==
    /\ pc = "fallback"
    /\ \E s \in Stores, e \in TodayEntries :
        /\ flavorCache[s] = NoEntry
        /\ e.title # ""
        /\ flavorCache' = [flavorCache EXCEPT ![s] = e]
        /\ published' = published \cup {s}
    /\ UNCHANGED <<forecasts, cadenceDb, storeReliability, pastNoon, request, pc,
                   firstPass, response>>
    /\ UNCHANGED <<certVars, relVars, sigVars, opsVars>>

\* handleDrive from the fallback pass to the response.
HandleDriveFallback ==
    /\ pc = "fallback"
    /\ LET query == ParsedQuery(request)
           fallbackResults == BuildCards(query, Env, TRUE, TRUE)
       IN  IF Rejected(fallbackResults)
           THEN /\ pc' = "threw"
                /\ UNCHANGED response
           ELSE /\ pc' = "done"
                /\ response' = DriveResponse(query, ValuesOf(fallbackResults, "card"),
                                             ValuesOf(firstPass, "excluded"))
    /\ UNCHANGED <<flavorCache, forecasts, cadenceDb, storeReliability, pastNoon, request, firstPass,
                   published>>
    /\ UNCHANGED <<certVars, relVars, sigVars, opsVars>>

DriveNext == HandleDrive \/ PublishSchedule \/ HandleDriveFallback

(***************************************************************************)
(* buildCard on its own: one candidate, over the whole range of what its   *)
(* score is computed from.                                                 *)
(***************************************************************************)
MaxGapDays == 140       \* longest gap between two appearances of a flavor
MaxDistance == 200      \* farthest store, in tenths of a mile

AllBoostTags ==
    <<"chocolate", "fruit", "caramel", "mint", "coffee", "seasonal", "kids">>
TagLists == {<<>>, <<"mint">>, AllBoostTags}
ExcludeLists == {<<>>, <<"nuts">>}
CardEntries ==
    {NoEntry, Entry("Vanilla", {}), Entry("Turtle", {"pecan"}),
     Entry("Mint Explosion", {"mocha", "strawberry", "caramel", "peppermint", "cookie"})}
CardForecasts == {"", "Turtle"}
CardHistories ==
    {<<>>, <<0>>, <<-29>>, <<-30>>, <<-3, -10>>, <<0, 0 - MaxGapDays>>}
CardDistances == {Null, 0, 12, MaxDistance}
CardDatabases ==
    {Database("bound", History(h)) : h \in CardHistories}
    \cup {Database("failing", NoHistory), Database(Absent, NoHistory)}

InitBuildCard ==
    /\ CertIdle
    /\ RelIdle
    /\ flavorRows = {}
    /\ signalsRequest = [slug |-> "", limit |-> [kind |-> "none", value |-> 0],
                         db |-> Absent, count |-> [kind |-> "threw", cnt |-> 0]]
    /\ signalsResponse = [status |-> 0]
    /\ OpsIdle
    /\ \E e \in CardEntries : flavorCache = [s \in Stores |-> e]
    /\ \E f \in CardForecasts : forecasts = [s \in Stores |-> f]
    /\ cadenceDb \in CardDatabases
    /\ \E t \in ReliabilityTiers : storeReliability = [s \in Stores |-> t]
    /\ pastNoon \in BOOLEAN
    /\ request = NoRequest
    /\ pc = "idle"
    /\ firstPass = <<>>
    /\ published = {}
    /\ response = NoResponse

\* One call of buildCard; its result is kept in firstPass.
BuildCard ==
    /\ pc = "idle"
    /\ \E slug \in Stores, distanceMiles \in CardDistances,
          excludeTags \in ExcludeLists, boostTags \in TagLists,
          avoidTags \in TagLists, includeEstimated \in BOOLEAN,
          allowEstimatedFallback \in BOOLEAN :
        firstPass' = <<buildCard(slug, Env, distanceMiles, excludeTags, boostTags,
                                 avoidTags, includeEstimated,
                                 allowEstimatedFallback)>>
    /\ pc' = "built"
    /\ UNCHANGED <<flavorCache, forecasts, cadenceDb, storeReliability, pastNoon, request, published,
                   response>>
    /\ UNCHANGED <<certVars, relVars, sigVars, opsVars>>

(***************************************************************************)
(* sortCards on its own: two cards at any distances a location can give,   *)
(* in each sort mode.                                                      *)
(***************************************************************************)
MaxHaversine == 124370  \* half the earth's circumference, in tenths of a mile

\* The distance of a store: unknown, next door, around the 9999 miles that
\* stand for unknown, and the other side of the earth.
SortDistances ==
    {Null, 0, 12, 10 * UNKNOWN_SORT_KEY - 1, 10 * UNKNOWN_SORT_KEY,
     10 * UNKNOWN_SORT_KEY + 1, MaxHaversine}

InitSortCards ==
    /\ CertIdle
    /\ RelIdle
    /\ flavorRows = {}
    /\ signalsRequest = [slug |-> "", limit |-> [kind |-> "none", value |-> 0],
                         db |-> Absent, count |-> [kind |-> "threw", cnt |-> 0]]
    /\ signalsResponse = [status |-> 0]
    /\ OpsIdle
    /\ \E e \in CardEntries \ {NoEntry} : flavorCache = [s \in Stores |-> e]
    /\ forecasts = [s \in Stores |-> ""]
    /\ cadenceDb \in CardDatabases
    /\ storeReliability = DRIVE_RELIABILITY
    /\ pastNoon = FALSE
    /\ request = NoRequest
    /\ pc = "idle"
    /\ firstPass = <<>>
    /\ published = {}
    /\ response = NoResponse

\* The cards of two stores, built at the given distances, through sortCards
\* into the response.
SortCards ==
    /\ pc = "idle"
    /\ \E first \in SortDistances, second \in SortDistances, sortMode \in SORT_MODES :
        LET results == <<buildCard("mt-horeb", Env, first, <<>>, <<>>, <<>>, FALSE, FALSE),
                         buildCard("verona", Env, second, <<>>, <<>>, <<>>, FALSE, FALSE)>>
            query == [ParsedQuery(NoRequest) EXCEPT !.slugs = <<"mt-horeb", "verona">>,
                                                    !.sort = sortMode]
        IN  /\ firstPass' = results
            /\ response' = DriveResponse(query, ValuesOf(results, "card"),
                                         ValuesOf(results, "excluded"))
    /\ pc' = "done"
    /\ UNCHANGED <<flavorCache, forecasts, cadenceDb, storeReliability, pastNoon, request,
                   published>>
    /\ UNCHANGED <<certVars, relVars, sigVars, opsVars>>

(***************************************************************************)
(* metrics.js: the signal detectors.  Today is 2026-02-17, a Tuesday; a    *)
(* date is its day number relative to today.  A score is the exact         *)
(* fraction [num, den], den > 0.                                           *)
(***************************************************************************)
SIGNAL_TYPES == [OVERDUE |-> "overdue", DOW_PATTERN |-> "dow_pattern",
                 SEASONAL |-> "seasonal", ACTIVE_STREAK |-> "active_streak",
                 RARE_FIND |-> "rare_find"]

MIN_APPEARANCES == 3
MIN_DOW_APPEARANCES == 7
MIN_SEASONAL_APPEARANCES == 6
MIN_STREAK_DAYS == 2
MAX_RARE_STORES == 3
\* OVERDUE_RATIO 1.5 as 3/2, the minimum average gap, CHI_SQUARED_CRITICAL
\* 12.592 in thousandths, SEASONAL_CONCENTRATION 0.5 as 1/2, and "a gap of at
\* most 1.5 days" in half days
OVERDUE_RATIO_NUM == 3
OVERDUE_RATIO_DEN == 2
MIN_AVG_GAP == 2
CHI_SQUARED_CRITICAL == 12592
SEASONAL_CONCENTRATION_DEN == 2
STREAK_GAP_HALF_DAYS == 3
DEFAULT_LIMIT == 5
MIN_LIMIT == 1
MAX_LIMIT == 20
HISTORY_DAYS == 365

Rat(num, den) == [num |-> num, den |-> den]
RatLess(a, b) == a.num * b.den < b.num * a.den
RatEq(a, b) == a.num * b.den = b.num * a.den

\* new Date(d).getUTCDay(): 0 is Sunday; today is a Tuesday.
getUTCDay(date) == (2 + date) % 7

\* new Date(d).getUTCMonth(): 0 is January; from the first days of the months
\* around 2026-02-17.
getUTCMonth(date) ==
    CASE date >= 43 -> 3
      [] date >= 12 -> 2
      [] date >= 0 - 16 -> 1
      [] date >= 0 - 47 -> 0
      [] date >= 0 - 78 -> 11
      [] date >= 0 - 108 -> 10
      [] date >= 0 - 139 -> 9
      [] date >= 0 - 169 -> 8
      [] date >= 0 - 200 -> 7
      [] date >= 0 - 231 -> 6
      [] date >= 0 - 261 -> 5
      [] date >= 0 - 292 -> 4
      [] date >= 0 - 322 -> 3
      [] date >= 0 - 353 -> 2
      [] date >= 0 - 381 -> 1
      [] date >= 0 - 412 -> 0
      [] OTHER -> 11

\* sorted.sort((a, b) => a - b)
RECURSIVE SortAscending(_)
SortAscending(list) ==
    IF list = <<>> THEN <<>>
    ELSE LET last == list[Len(list)]
             rest == SortAscending(SubSeq(list, 1, Len(list) - 1))
         IN  SelectSeq(rest, LAMBDA x : x <= last) \o <<last>>
             \o SelectSeq(rest, LAMBDA x : x > last)

Reverse(list) == [i \in 1..Len(list) |-> list[Len(list) + 1 - i]]

\* signals.sort((a, b) => b.score - a.score): by score, highest first, stable.
RECURSIVE SortByScore(_)
SortByScore(signals) ==
    IF signals = <<>> THEN <<>>
    ELSE LET last == signals[Len(signals)]
             rest == SortByScore(SubSeq(signals, 1, Len(signals) - 1))
         IN  SelectSeq(rest, LAMBDA x : ~RatLess(x.score, last.score)) \o <<last>>
             \o SelectSeq(rest, LAMBDA x : RatLess(x.score, last.score))

\* The signals of the entries of a history, in order; each entry gives a list
\* of none or one.
RECURSIVE Flatten(_)
Flatten(lists) == IF lists = <<>> THEN <<>> ELSE Head(lists) \o Flatten(Tail(lists))

\* The overdue test without the minimum average gap.
OverdueOfAnyGap(entry) ==
    LET sorted == SortAscending(entry.dates)
        gaps == [i \in 1..(Len(sorted) - 1) |-> sorted[i + 1] - sorted[i]]
        gapSum == SumSeq(gaps)
        daysSince == 0 - sorted[Len(sorted)]
    IN  IF Len(entry.dates) < MIN_APPEARANCES THEN <<>>
        ELSE IF /\ gapSum > 0
                /\ OVERDUE_RATIO_DEN * daysSince * Len(gaps) >= OVERDUE_RATIO_NUM * gapSum
             THEN <<[type |-> SIGNAL_TYPES.OVERDUE, flavor |-> entry.flavor,
                     action |-> "alert",
                     evidence |-> [avg_gap_days |-> RoundDiv(gapSum, Len(gaps)),
                                   days_since |-> daysSince,
                                   ratio |-> RoundDiv(10 * daysSince * Len(gaps), gapSum),
                                   appearances |-> Len(entry.dates)],
                     score |-> Rat(daysSince * Len(gaps), gapSum)]>>
             ELSE <<>>

\* detectOverdue for one entry of the history: avgGap = gapSum / gaps.length,
\* ratio = daysSince / avgGap; fires when ratio >= 1.5 and avgGap >= 2.
OverdueOf(entry) ==
    LET sorted == SortAscending(entry.dates)
        gaps == [i \in 1..(Len(sorted) - 1) |-> sorted[i + 1] - sorted[i]]
        gapSum == SumSeq(gaps)
        daysSince == 0 - sorted[Len(sorted)]
    IN  IF Len(entry.dates) < MIN_APPEARANCES THEN <<>>
        ELSE IF /\ gapSum >= MIN_AVG_GAP * Len(gaps)
                /\ OVERDUE_RATIO_DEN * daysSince * Len(gaps) >= OVERDUE_RATIO_NUM * gapSum
             THEN <<[type |-> SIGNAL_TYPES.OVERDUE, flavor |-> entry.flavor,
                     action |-> "alert",
                     evidence |-> [avg_gap_days |-> RoundDiv(gapSum, Len(gaps)),
                                   days_since |-> daysSince,
                                   ratio |-> RoundDiv(10 * daysSince * Len(gaps), gapSum),
                                   appearances |-> Len(entry.dates)],
                     score |-> Rat(daysSince * Len(gaps), gapSum)]>>
             ELSE <<>>

detectOverdue(flavorHistory) ==
    SortByScore(Flatten([i \in 1..Len(flavorHistory) |-> OverdueOf(flavorHistory[i])]))

DOW_NAMES == <<"Sunday", "Monday", "Tuesday", "Wednesday", "Thursday", "Friday",
               "Saturday">>
MONTH_NAMES == <<"Jan", "Feb", "Mar", "Apr", "May", "Jun", "Jul", "Aug", "Sep",
                 "Oct", "Nov", "Dec">>

\* dowCounts and monthCounts: how many of the dates fall in each bucket.
dowCountsOf(dates) ==
    [k \in 1..7 |-> Cardinality({i \in 1..Len(dates) : getUTCDay(dates[i]) = k - 1})]

monthCountsOf(dates) ==
    [k \in 1..12 |-> Cardinality({i \in 1..Len(dates) : getUTCMonth(dates[i]) = k - 1})]

RECURSIVE SumOfSquares(_)
SumOfSquares(counts) ==
    IF counts = <<>> THEN 0
    ELSE Head(counts) * Head(counts) + SumOfSquares(Tail(counts))

\* counts.indexOf(Math.max(...counts)), from 1.
IndexOfMax(counts) ==
    CHOOSE k \in 1..Len(counts) :
        /\ \A j \in 1..Len(counts) : counts[j] <= counts[k]
        /\ \A j \in 1..(k - 1) : counts[j] < counts[k]

\* The weekday test from three appearances on.
DowPatternOfShortHistory(entry) ==
    LET n == Len(entry.dates)
        dowCounts == dowCountsOf(entry.dates)
        chiNum == 7 * SumOfSquares(dowCounts) - n * n
        peakDow == IndexOfMax(dowCounts)
    IN  IF n < MIN_APPEARANCES THEN <<>>
        ELSE IF 1000 * chiNum >= CHI_SQUARED_CRITICAL * n
             THEN <<[type |-> SIGNAL_TYPES.DOW_PATTERN, flavor |-> entry.flavor,
                     action |-> "calendar",
                     evidence |-> [peak_dow |-> peakDow - 1,
                                   peak_name |-> DOW_NAMES[peakDow],
                                   peak_pct |-> RoundDiv(100 * dowCounts[peakDow], n),
                                   chi_squared |-> RoundDiv(10 * chiNum, n),
                                   total |-> n],
                     score |-> Rat(chiNum, n)]>>
             ELSE <<>>

\* detectDowPatterns for one entry: expected = n / 7 per weekday, chiSquared =
\* sum of (count - expected)^2 / expected = (7 sum(count^2) - n^2) / n.
DowPatternOf(entry) ==
    LET n == Len(entry.dates)
        dowCounts == dowCountsOf(entry.dates)
        chiNum == 7 * SumOfSquares(dowCounts) - n * n
        peakDow == IndexOfMax(dowCounts)
    IN  IF n < MIN_DOW_APPEARANCES THEN <<>>
        ELSE IF 1000 * chiNum >= CHI_SQUARED_CRITICAL * n
             THEN <<[type |-> SIGNAL_TYPES.DOW_PATTERN, flavor |-> entry.flavor,
                     action |-> "calendar",
                     evidence |-> [peak_dow |-> peakDow - 1,
                                   peak_name |-> DOW_NAMES[peakDow],
                                   peak_pct |-> RoundDiv(100 * dowCounts[peakDow], n),
                                   chi_squared |-> RoundDiv(10 * chiNum, n),
                                   total |-> n],
                     score |-> Rat(chiNum, n)]>>
             ELSE <<>>

detectDowPatterns(flavorHistory) ==
    SortByScore(Flatten([i \in 1..Len(flavorHistory) |-> DowPatternOf(flavorHistory[i])]))

\* The sum of the 3-month window that starts at month start (0..11).
WindowSum(monthCounts, start) ==
    monthCounts[start + 1] + monthCounts[((start + 1) % 12) + 1]
    + monthCounts[((start + 2) % 12) + 1]

\* The loop without the two windows that wrap from December to January.
RECURSIVE BestWindowInYear(_, _, _, _)
BestWindowInYear(monthCounts, start, bestStart, bestSum) ==
    IF start >= 10 THEN [bestStart |-> bestStart, bestSum |-> bestSum]
    ELSE IF WindowSum(monthCounts, start) > bestSum
         THEN BestWindowInYear(monthCounts, start + 1, start,
                               WindowSum(monthCounts, start))
         ELSE BestWindowInYear(monthCounts, start + 1, bestStart, bestSum)

\* The sliding window loop: the first start with the largest sum.
RECURSIVE BestWindow(_, _, _, _)
BestWindow(monthCounts, start, bestStart, bestSum) ==
    IF start >= 12 THEN [bestStart |-> bestStart, bestSum |-> bestSum]
    ELSE IF WindowSum(monthCounts, start) > bestSum
         THEN BestWindow(monthCounts, start + 1, start, WindowSum(monthCounts, start))
         ELSE BestWindow(monthCounts, start + 1, bestStart, bestSum)


\* detectSeasonal for one entry.
SeasonalOf(entry) ==
    LET n == Len(entry.dates)
        best == BestWindow(monthCountsOf(entry.dates), 0, 0, 0)
    IN  IF n < MIN_APPEARANCES THEN <<>>
        ELSE IF /\ SEASONAL_CONCENTRATION_DEN * best.bestSum >= n
                /\ n >= MIN_SEASONAL_APPEARANCES
             THEN <<[type |-> SIGNAL_TYPES.SEASONAL, flavor |-> entry.flavor,
                     action |-> "alert",
                     evidence |-> [peak_months |->
                                       <<MONTH_NAMES[best.bestStart + 1],
                                         MONTH_NAMES[((best.bestStart + 1) % 12) + 1],
                                         MONTH_NAMES[((best.bestStart + 2) % 12) + 1]>>,
                                   concentration |-> RoundDiv(100 * best.bestSum, n),
                                   peak_count |-> best.bestSum,
                                   total |-> n],
                     score |-> Rat(best.bestSum, n)]>>
             ELSE <<>>

detectSeasonal(flavorHistory) ==
    SortByScore(Flatten([i \in 1..Len(flavorHistory) |-> SeasonalOf(flavorHistory[i])]))

\* The backward count of consecutive days: stops at the first gap above 1.5.
RECURSIVE StreakWalk(_, _, _)
StreakWalk(sorted, i, streak) ==
    IF i > Len(sorted) THEN streak
    ELSE IF 2 * (sorted[i - 1] - sorted[i]) > STREAK_GAP_HALF_DAYS THEN streak
    ELSE StreakWalk(sorted, i + 1, streak + 1)

\* detectStreaks for one entry.
StreakOf(entry) ==
    LET sorted == Reverse(SortAscending(entry.dates))
        daysDiff == 0 - sorted[1]
        streak == StreakWalk(sorted, 2, 1)
    IN  IF Len(entry.dates) < MIN_STREAK_DAYS THEN <<>>
        ELSE IF 2 * daysDiff > STREAK_GAP_HALF_DAYS THEN <<>>
        ELSE IF streak >= MIN_STREAK_DAYS
             THEN <<[type |-> SIGNAL_TYPES.ACTIVE_STREAK, flavor |-> entry.flavor,
                     action |-> "directions",
                     evidence |-> [streak_days |-> streak],
                     score |-> Rat(streak, 1)]>>
             ELSE <<>>

detectStreaks(flavorHistory) ==
    SortByScore(Flatten([i \in 1..Len(flavorHistory) |-> StreakOf(flavorHistory[i])]))

\* The rarity test without its upper limit on the store count.
detectRareFindAnyCount(todayFlavor, storeCount) ==
    IF todayFlavor = "" \/ storeCount = Null THEN <<>>
    ELSE IF storeCount < 1 THEN <<>>
    ELSE <<[type |-> SIGNAL_TYPES.RARE_FIND, flavor |-> todayFlavor,
            action |-> "directions", evidence |-> [store_count |-> storeCount],
            score |-> Rat(1, storeCount)]>>

\* detectRareFind: a list of none or one; todayFlavor "" and storeCount Null
\* stand for null.
detectRareFind(todayFlavor, storeCount) ==
    IF todayFlavor = "" \/ storeCount = Null THEN <<>>
    ELSE IF storeCount > MAX_RARE_STORES \/ storeCount < 1 THEN <<>>
    ELSE <<[type |-> SIGNAL_TYPES.RARE_FIND, flavor |-> todayFlavor,
            action |-> "directions", evidence |-> [store_count |-> storeCount],
            score |-> Rat(1, storeCount)]>>

\* buildFlavorHistory: the dates of each flavor, flavors in order of first row.
RECURSIVE buildFlavorHistoryWalk(_, _)
buildFlavorHistoryWalk(rows, map) ==
    IF rows = <<>> THEN map
    ELSE LET row == Head(rows)
             known == {i \in 1..Len(map) : map[i].flavor = row.flavor}
         IN  IF row.flavor = "" THEN buildFlavorHistoryWalk(Tail(rows), map)
             ELSE IF known = {}
             THEN buildFlavorHistoryWalk(Tail(rows),
                      Append(map, [flavor |-> row.flavor, dates |-> <<row.date>>]))
             ELSE buildFlavorHistoryWalk(Tail(rows),
                      [i \in 1..Len(map) |->
                          IF i \in known
                          THEN [map[i] EXCEPT !.dates = Append(@, row.date)]
                          ELSE map[i]])

buildFlavorHistory(rows) == buildFlavorHistoryWalk(rows, <<>>)

\* The signals of the four history detectors and the rarity detector, in the
\* order computeSignals collects them.
DetectedSignals(options) ==
    LET history == buildFlavorHistory(options.snapshotRows)
    IN  detectOverdue(history) \o detectDowPatterns(history)
        \o detectSeasonal(history) \o detectStreaks(history)
        \o detectRareFind(options.todayFlavor, options.todayFlavorStoreCount)

\* The deduplication loop: best keeps, per flavor and type, the signal with
\* the highest score, at the place of the first one.
RECURSIVE BestPerKey(_, _)
BestPerKey(signals, best) ==
    IF signals = <<>> THEN best
    ELSE LET signal == Head(signals)
             same == {i \in 1..Len(best) : /\ best[i].flavor = signal.flavor
                                           /\ best[i].type = signal.type}
         IN  IF same = {} THEN BestPerKey(Tail(signals), Append(best, signal))
             ELSE BestPerKey(Tail(signals),
                      [i \in 1..Len(best) |->
                          IF i \in same /\ RatLess(best[i].score, signal.score)
                          THEN signal ELSE best[i]])

\* Array.prototype.slice(0, limit).
SliceTo(list, limit) ==
    IF limit >= 0 THEN SubSeq(list, 1, Min(limit, Len(list)))
    ELSE SubSeq(list, 1, Max(Len(list) + limit, 0))

\* computeSignals without the sort before the cut.
computeSignalsUnsorted(options) ==
    SliceTo(BestPerKey(DetectedSignals(options), <<>>), options.limit)

computeSignals(options) ==
    SliceTo(SortByScore(BestPerKey(DetectedSignals(options), <<>>)), options.limit)

\* parseInt(url.searchParams.get('limit')) || 5, clamped: param is [kind, value]
\* with kind "none" (no parameter), "text" (no number) or "int".
ParseLimit(param) ==
    LET parsed == IF param.kind = "int" THEN param.value ELSE 0
    IN  Min(Max(IF parsed = 0 THEN DEFAULT_LIMIT ELSE parsed, MIN_LIMIT), MAX_LIMIT)

\* The store's rows of the last 365 days, ordered by date.
RECURSIVE Ascending(_)
Ascending(dates) ==
    IF dates = {} THEN <<>>
    ELSE LET first == CHOOSE d \in dates : \A e \in dates : d <= e
         IN  <<first>> \o Ascending(dates \ {first})

QuerySignalRows(table) ==
    LET dates == Ascending({r.date : r \in {x \in table : x.date >= 0 - HISTORY_DAYS}})
    IN  [i \in 1..Len(dates) |-> CHOOSE r \in table : r.date = dates[i]]

\* Bounds of the histories and of the cross-store count.
MaxAppearances == 8     \* dates in a regular series of appearances
MaxStoreCount == 4      \* stores serving today's flavor

\* n dates, step days apart, the latest being start.
Series(start, step, n) == {start - step * i : i \in 0..(n - 1)}

\* The dates of the first flavor: regular series, and histories at the edges
\* of the tests: ratio 1.49 and 1.51; weekday counts 4,1,1,1 and 4,2,1; half
\* of six appearances in Nov-Dec-Jan and in Dec-Jan-Feb.
FirstFlavorPatterns ==
    {Series(start, step, n) :
        start \in {3, 1, 0, -1, -2, -20}, step \in {1, 2, 7, 10, 30},
        n \in 0..MaxAppearances}
    \cup {Series(-149, 100, 3), Series(-151, 100, 3),
          Series(0, 7, 4) \cup {-1, -2, -3}, Series(0, 7, 4) \cup {-1, -8, -3},
          Series(-20, 30, 3) \cup Series(-170, 60, 3),
          {0, -20, -50} \cup Series(-170, 60, 3)}

NoSignalsRequest ==
    [slug |-> "", limit |-> [kind |-> "none", value |-> 0], db |-> Absent,
     count |-> [kind |-> "threw", cnt |-> 0]]

\* The requests: the limit parameter is absent, a text or an integer; the
\* count query throws or gives a count; a request that is refused before the
\* history is read has the other inputs at their defaults.
SignalRequests ==
    {r \in [slug : {"", "mt-horeb"},
            limit : {[kind |-> "none", value |-> 0], [kind |-> "text", value |-> 0]}
                    \cup {[kind |-> "int", value |-> v] : v \in {-3, 0, 1, 2, 5, 20, 21}},
            db : DbStates,
            count : {[kind |-> "threw", cnt |-> 0]}
                    \cup {[kind |-> "ok", cnt |-> c] : c \in 0..MaxStoreCount}] :
        /\ r.slug = "" => r.db = Absent
        /\ r.db # "bound" => r.limit.kind = "none" /\ r.count.kind = "threw"}

SignalsIdle ==
    /\ flavorRows = {}
    /\ signalsRequest = NoSignalsRequest
    /\ signalsResponse = NoResponse

\* The rows of one store, at most one row per date: two flavors, the second
\* with one of three short histories.
SignalsInit ==
    /\ \E first \in FirstFlavorPatterns :
       \E second \in {{}, {-41, -46, -51}, {-4, -13, -22, -31}} :
          /\ first \cap second = {}
          /\ flavorRows = {[flavor |-> "Turtle", date |-> d] : d \in first}
                          \cup {[flavor |-> "Mint Explosion", date |-> d] : d \in second}
    /\ signalsRequest = NoSignalsRequest
    /\ signalsResponse = NoResponse

\* What handleSignals passes to computeSignals.
SignalOpts(rows, req) ==
    LET todayRows == {i \in 1..Len(rows) : rows[i].date = 0}
        todayRow == rows[CHOOSE i \in todayRows : \A j \in todayRows : i <= j]
    IN  [snapshotRows |-> rows,
         todayFlavor |-> IF todayRows = {} THEN "" ELSE todayRow.flavor,
         todayFlavorStoreCount |->
             IF todayRows = {} \/ req.count.kind = "threw" \/ req.count.cnt = 0
             THEN Null ELSE req.count.cnt,
         limit |-> ParseLimit(req.limit)]

\* handleSignals: GET /api/v1/signals/{slug}.
HandleSignals ==
    /\ signalsResponse = NoResponse
    /\ \E req \in SignalRequests :
        LET rows == QuerySignalRows(flavorRows)
        IN  /\ signalsRequest' = req
            /\ signalsResponse' =
                 IF req.slug = "" THEN [status |-> 400, error |-> "slug"]
                 ELSE IF req.db = Absent THEN [status |-> 503, error |-> "database"]
                 ELSE IF req.db = "failing" THEN [status |-> 500, error |-> "query"]
                 ELSE IF Len(rows) = 0
                 THEN [status |-> 200, slug |-> req.slug, signals |-> <<>>,
                       message |-> "No history for this store"]
                 ELSE [status |-> 200, slug |-> req.slug, today |-> 0,
                       signals |-> computeSignals(SignalOpts(rows, req))]
    /\ UNCHANGED flavorRows
    /\ UNCHANGED <<certVars, relVars, driveVars, opsVars>>

(***************************************************************************)
(* reliability.js: getReliabilityBatch, the cursor through the stores.     *)
(* The DISTINCT slugs in ascending order are named by their rank 1..n.     *)
(***************************************************************************)
MaxSlugs == 6
MaxBatchSize == 4

\* The batch whose cursor wraps only after it has passed the end of the list.
getReliabilityBatchLateWrap(db, allSlugs, batchSize, cursor) ==
    IF db = Absent THEN [slugs |-> <<>>, nextCursor |-> 0]
    ELSE IF Len(allSlugs) = 0 THEN [slugs |-> <<>>, nextCursor |-> 0]
    ELSE LET batch == SubSeq(allSlugs, Min(cursor, Len(allSlugs)) + 1,
                             Min(cursor + batchSize, Len(allSlugs)))
         IN  [slugs |-> batch,
              nextCursor |-> IF cursor + Len(batch) > Len(allSlugs) THEN 0
                             ELSE cursor + Len(batch)]

getReliabilityBatch(db, allSlugs, batchSize, cursor) ==
    IF db = Absent THEN [slugs |-> <<>>, nextCursor |-> 0]
    ELSE IF Len(allSlugs) = 0 THEN [slugs |-> <<>>, nextCursor |-> 0]
    ELSE LET batch == SubSeq(allSlugs, Min(cursor, Len(allSlugs)) + 1,
                             Min(cursor + batchSize, Len(allSlugs)))
         IN  [slugs |-> batch,
              nextCursor |-> IF cursor + Len(batch) >= Len(allSlugs) THEN 0
                             ELSE cursor + Len(batch)]

CronInit ==
    cron \in {[db |-> db, n |-> n, batchSize |-> batchSize, start |-> start, cursor |-> start,
               batches |-> <<>>, wrapped |-> FALSE] :
              db \in {"bound", Absent}, n \in 0..MaxSlugs, batchSize \in 1..MaxBatchSize,
              start \in 0..(MaxSlugs + 1)}

\* One cron run: the batch at the saved cursor, and the returned cursor saved
\* for the next run. The walk is followed until the cursor is back at 0.
GetReliabilityBatch ==
    /\ ~cron.wrapped
    /\ LET result == getReliabilityBatch(cron.db, [i \in 1..cron.n |-> i], cron.batchSize,
                                         cron.cursor)
       IN  cron' = [cron EXCEPT !.cursor = result.nextCursor,
                                !.batches = Append(@, result.slugs),
                                !.wrapped = (result.nextCursor = 0)]
    /\ UNCHANGED <<certVars, relVars, driveVars, sigVars, bulk, kv, fetcher, upstream>>

(***************************************************************************)
(* metrics.js: queryDatesForSlugs, the chunked date query.  The slugs are  *)
(* numbered; D1 is given by the ordinals of the queries it fails.          *)
(***************************************************************************)
SLUG_BATCH == 98
MaxChunks == 2

\* The snapshots table: the date of the one row store `slug` has of the flavor.
ServedOn(slug) == 0 - (slug % 5)

\* The loop from index i on: the bound batch of every query issued, and the
\* dates pushed by the queries that did not throw.
RECURSIVE queryDatesWalk(_, _, _, _)
queryDatesWalk(slugs, failing, size, i) ==
    IF i >= Len(slugs) THEN [allDates |-> <<>>, queries |-> <<>>]
    ELSE LET batch == SubSeq(slugs, i + 1, Min(i + size, Len(slugs)))
             dates == [k \in 1..Len(batch) |-> ServedOn(batch[k])]
             \* ORDER BY date ASC: place r holds the r-th smallest date
             ordered == [r \in 1..Len(dates) |->
                            CHOOSE d \in {dates[k] : k \in 1..Len(dates)} :
                                /\ Cardinality({k \in 1..Len(dates) : dates[k] < d}) < r
                                /\ Cardinality({k \in 1..Len(dates) : dates[k] <= d}) >= r]
             rows == IF ((i \div size) + 1) \in failing THEN <<>> ELSE ordered
             rest == queryDatesWalk(slugs, failing, size, i + size)
         IN  [allDates |-> rows \o rest.allDates,
              queries |-> <<[batch |-> batch, bound |-> Len(batch) + 1]>> \o rest.queries]

\* The query with batches that use the two slots the code leaves free.
queryDatesForSlugsNoMargin(db, slugs, failing) ==
    IF db = Absent \/ Len(slugs) = 0
    THEN [kind |-> "returned", allDates |-> <<>>, queries |-> <<>>]
    ELSE LET walk == queryDatesWalk(slugs, failing, SLUG_BATCH + 2, 0)
         IN  [kind |-> "returned", allDates |-> walk.allDates, queries |-> walk.queries]

queryDatesForSlugs(db, slugs, failing) ==
    IF db = Absent \/ Len(slugs) = 0
    THEN [kind |-> "returned", allDates |-> <<>>, queries |-> <<>>]
    ELSE LET walk == queryDatesWalk(slugs, failing, SLUG_BATCH, 0)
         IN  [kind |-> "returned", allDates |-> walk.allDates, queries |-> walk.queries]

BulkInit ==
    bulk \in {[db |-> db, n |-> n, failing |-> failing, result |-> [kind |-> Pending]] :
              db \in {"bound", Absent},
              n \in {0, 1} \cup {k * SLUG_BATCH + d : k \in 1..MaxChunks, d \in {0 - 1, 0, 1}},
              failing \in SUBSET (1..(MaxChunks + 1))}

QueryDatesForSlugs ==
    /\ bulk.result.kind = Pending
    /\ bulk' = [bulk EXCEPT !.result = queryDatesForSlugs(bulk.db, [i \in 1..bulk.n |-> i],
                                                          bulk.failing)]
    /\ UNCHANGED <<certVars, relVars, driveVars, sigVars, cron, kv, fetcher, upstream>>

(***************************************************************************)
(* index.js: getFlavorsCached and the daily fetch budget.  Each calendar   *)
(* request runs getFlavorsCached for its store; a step is the code between *)
(* two awaits, and the steps of different requests interleave.             *)
(***************************************************************************)
MAX_DAILY_FETCHES == 50
MaxRequests == 2

\* The counter after `count` earlier fetches of other stores, and the
\* requests at the start of getFlavorsCached.
BudgetInit ==
    /\ \E count \in {0} \cup {MAX_DAILY_FETCHES - k : k \in 0..MaxRequests} :
           /\ kv = [count |-> count, flavors |-> {}]
           /\ upstream = [calls |-> count, succeeded |-> count]
    /\ fetcher \in [1..MaxRequests ->
                      {[pc |-> "start", slug |-> slug, count |-> 0] : slug \in {"mt-horeb", "verona"}}]

\* const cached = await kv.get(`flavors:${slug}`); if (cached) return ...
GetCached ==
    /\ \E r \in DOMAIN fetcher :
           /\ fetcher[r].pc = "start"
           /\ fetcher' = [fetcher EXCEPT ![r].pc = IF fetcher[r].slug \in kv.flavors THEN "done"
                                                   ELSE "check"]
    /\ UNCHANGED <<certVars, relVars, driveVars, sigVars, cron, bulk, kv, upstream>>

\* checkFetchBudget: one read of the counter; the request throws at the limit.
checkFetchBudget ==
    /\ \E r \in DOMAIN fetcher :
           /\ fetcher[r].pc = "check"
           /\ fetcher' = [fetcher EXCEPT ![r].pc = IF kv.count < MAX_DAILY_FETCHES THEN "fetch"
                                                   ELSE "rejected"]
    /\ UNCHANGED <<certVars, relVars, driveVars, sigVars, cron, bulk, kv, upstream>>

\* const data = await fetchFlavorsFn(slug): the upstream answers or throws.
FetchFlavors ==
    /\ \E r \in DOMAIN fetcher, ok \in BOOLEAN :
           /\ fetcher[r].pc = "fetch"
           /\ fetcher' = [fetcher EXCEPT ![r].pc = IF ok THEN "put" ELSE "failed"]
           /\ upstream' = [calls |-> upstream.calls + 1,
                           succeeded |-> upstream.succeeded + (IF ok THEN 1 ELSE 0)]
    /\ UNCHANGED <<certVars, relVars, driveVars, sigVars, cron, bulk, kv>>

\* await kv.put(`flavors:${slug}`, ...)
PutFlavors ==
    /\ \E r \in DOMAIN fetcher :
           /\ fetcher[r].pc = "put"
           /\ kv' = [kv EXCEPT !.flavors = @ \cup {fetcher[r].slug}]
           /\ fetcher' = [fetcher EXCEPT ![r].pc = "increment"]
    /\ UNCHANGED <<certVars, relVars, driveVars, sigVars, cron, bulk, upstream>>

\* incrementFetchCount, first await: the counter is read.
ReadFetchCount ==
    /\ \E r \in DOMAIN fetcher :
           /\ fetcher[r].pc = "increment"
           /\ fetcher' = [fetcher EXCEPT ![r].pc = "write", ![r].count = kv.count]
    /\ UNCHANGED <<certVars, relVars, driveVars, sigVars, cron, bulk, kv, upstream>>

\* incrementFetchCount, second await: the value read, plus one, is written.
PutFetchCount ==
    /\ \E r \in DOMAIN fetcher :
           /\ fetcher[r].pc = "write"
           /\ kv' = [kv EXCEPT !.count = fetcher[r].count + 1]
           /\ fetcher' = [fetcher EXCEPT ![r].pc = "done"]
    /\ UNCHANGED <<certVars, relVars, driveVars, sigVars, cron, bulk, upstream>>

BudgetNext ==
    GetCached \/ checkFetchBudget \/ FetchFlavors \/ PutFlavors \/ ReadFetchCount \/ PutFetchCount

(***************************************************************************)
(* Specifications: one per component, the other components idle.           *)
(***************************************************************************)
InitCertainty == OpsIdle /\ RelIdle /\ DriveIdle /\ SignalsIdle /\ CertInit
SpecCertainty == InitCertainty /\ [][CertNext]_vars

InitReliability == OpsIdle /\ CertIdle /\ DriveIdle /\ SignalsIdle /\ RelInit
SpecReliability == InitReliability /\ [][RelNext]_vars

InitDrive == OpsIdle /\ CertIdle /\ RelIdle /\ SignalsIdle /\ DriveInit
SpecDrive == InitDrive /\ [][DriveNext]_vars

SpecBuildCard == InitBuildCard /\ [][BuildCard]_vars

SpecSortCards == InitSortCards /\ [][SortCards]_vars

InitSignals == OpsIdle /\ CertIdle /\ RelIdle /\ DriveIdle /\ SignalsInit
SpecSignals == InitSignals /\ [][HandleSignals]_vars

InitCron == CertIdle /\ RelIdle /\ DriveIdle /\ SignalsIdle /\ BulkIdle /\ BudgetIdle /\ CronInit
SpecCron == InitCron /\ [][GetReliabilityBatch]_vars

InitBulk == CertIdle /\ RelIdle /\ DriveIdle /\ SignalsIdle /\ CronIdle /\ BudgetIdle /\ BulkInit
SpecBulk == InitBulk /\ [][QueryDatesForSlugs]_vars

InitBudget == CertIdle /\ RelIdle /\ DriveIdle /\ SignalsIdle /\ CronIdle /\ BulkIdle /\ BudgetInit
SpecBudget == InitBudget /\ [][BudgetNext]_vars

(***************************************************************************)
(* Properties                                                              *)
(***************************************************************************)

\* C5: for every probability p in [0,1] the caps keep the tier order,
\* cap(confirmed) > cap(watch) > cap(estimated, p) >= cap(none); the cap of an
\* estimate is min(0.5, 5p), and 'none' or an unrecognized tier caps at 0.
C5_CapOrdering ==
    (capCall.tier # Pending /\ capCall.probability <= 100) =>
        LET p == capCall.probability IN
        /\ certaintyCap("confirmed", p) > certaintyCap("watch", p)
        /\ certaintyCap("watch", p) > certaintyCap("estimated", p)
        /\ certaintyCap("estimated", p) >= certaintyCap("none", p)
        /\ capCall.tier = "estimated" =>
              /\ capCall.cap = (IF 5 * p < 50 THEN 5 * p ELSE 50)
              /\ capCall.cap < 70
        /\ capCall.tier \in {"none", "unknown"} => capCall.cap = 0
        /\ capCall.tier = "confirmed" => capCall.cap = 100
        /\ capCall.tier = "watch" => capCall.cap = 70

\* C5 witness: the strongest estimate (p = 1.0) was capped at 0.5.
C5_Witness ==
    capCall.tier = "estimated" /\ capCall.probability = 100 /\ capCall.cap = 50

\* C6: determineCertaintyTier is this total function: with a confirmed entry,
\* WATCH when the reliability tier is watch or unreliable and CONFIRMED otherwise
\* (also when the tier is absent, whatever hasForecast is); without one, ESTIMATED
\* for any forecast whatever the probability and history depth; else NONE.
C6_TierFunction ==
    certaintyTier # Pending =>
        certaintyTier =
            (IF opts.hasConfirmed
             THEN (IF opts.reliabilityTier \in {"watch", "unreliable"}
                   THEN "watch" ELSE "confirmed")
             ELSE (IF opts.hasForecast THEN "estimated" ELSE "none"))

\* C6 witness: a forecast below both thresholds was still tiered ESTIMATED.
C6_Witness ==
    /\ certaintyTier = "estimated"
    /\ opts.probability <= 4
    /\ opts.historyDepth < 30

\* C3: whenever computeReliability returns a record, its reliability_score is
\* within [0,1], whatever the coverage, the lags and the missing-date runs.
C3_ScoreInUnitInterval ==
    reliability.kind = "record" =>
        /\ reliability.reliability_score >= 0
        /\ reliability.reliability_score <= 10000

\* C3 witness: a record for a store with a lag above 24h and a closed window of
\* missing dates, scored at the lower end of the interval.
C3_Witness ==
    /\ reliability.kind = "record"
    /\ \E r \in snapshots : r.has_fetched_at /\ Abs(r.fetched_at) > 24
    /\ reliability.missing_window_rate = 10000
    /\ reliability.reliability_score = 0

\* C4: reliability_tier is a total function of the reported score: confirmed
\* iff score >= 0.7, watch iff 0.4 <= score < 0.7, unreliable iff score < 0.4.
C4_TierPartition ==
    reliability.kind = "record" =>
        LET sc == reliability.reliability_score
            t == reliability.reliability_tier
        IN  /\ t \in {"confirmed", "watch", "unreliable"}
            /\ (t = "confirmed") <=> (sc >= 7000)
            /\ (t = "watch") <=> (sc >= 4000 /\ sc < 7000)
            /\ (t = "unreliable") <=> (sc < 4000)

\* C4 witness: a score exactly on the 0.7 boundary, tiered confirmed.
C4_Witness ==
    /\ reliability.kind = "record"
    /\ reliability.reliability_score = 7000
    /\ reliability.reliability_tier = "confirmed"

\* C9: with a database bound and answering, computeReliability returns null
\* exactly when the store has no snapshot dated within the 30 window dates
\* ending today (refuted by a store whose only rows are dated outside them).
C9_NullIffNoneInWindow ==
    (reliability.kind # Pending /\ reliability.db = "bound") =>
        ((reliability.kind = "null")
            <=> (presentDates(snapshots) \cap ((0 - 29)..0) = {}))

\* C10: computeReliability never ends with an error, whatever the storage does
\* (refuted by a history query that rejects).
C10_NeverThrows ==
    reliability.kind # "threw"

\* The set of the elements of a list.
Range(list) == {list[i] : i \in 1..Len(list)}

\* Whether the last pass of the answered request ran with estimates allowed.
EstimatesAllowed ==
    response.query.include_estimated
    \/ NeedsFallback(firstPass, response.query.include_estimated)

\* The flavor (name and description) the last pass resolved for a store.
ResolvedFlavor(slug) ==
    IF flavorCache[slug].title # ""
    THEN [name |-> flavorCache[slug].title,
          description |-> flavorCache[slug].description]
    ELSE [name |-> IF EstimatesAllowed THEN forecasts[slug] ELSE "",
          description |-> {}]

\* The requested hard-exclude tags the resolved flavor of a store carries.
HardExcludeTagsOf(slug) ==
    LET flavor == ResolvedFlavor(slug)
    IN  IF flavor.name = "" THEN {}
        ELSE extractFlavorTags(flavor.name, flavor.description)
             \cap Range(response.query.exclude) \cap HARD_EXCLUDE_TAGS

\* C1: in every handleDrive response, a candidate whose resolved flavor
\* (confirmed, or estimated via the fallback) carries a tag that is both in the
\* request's exclude set and hard-exclude never appears in cards; it appears in
\* excluded with that tag among its reason_codes, and that entry has no score.
C1_HardExcludeRouting ==
    response.status = 200 =>
        \A slug \in Range(response.query.slugs) :
            HardExcludeTagsOf(slug) # {} =>
                /\ \A i \in 1..Len(response.cards) : response.cards[i].slug # slug
                /\ \E j \in 1..Len(response.excluded) :
                    /\ response.excluded[j].slug = slug
                    /\ HardExcludeTagsOf(slug)
                           \subseteq Range(response.excluded[j].reason_codes)
                    /\ "score" \notin DOMAIN response.excluded[j]

\* C2: every card buildCard returns, and every card of a response, has a score
\* in [0,100], for any number of matched boost and avoid tags, any average gap,
\* any novelty state and any distance.
C2_ScoreInRange ==
    /\ \A i \in 1..Len(firstPass) :
        firstPass[i].type = "card" =>
            firstPass[i].value.score >= 0 /\ firstPass[i].value.score <= SCORE_MAX
    /\ response.status = 200 =>
        \A i \in 1..Len(response.cards) :
            response.cards[i].score >= 0 /\ response.cards[i].score <= SCORE_MAX

\* C2 witness: a card with seven matched avoid tags and the full detour
\* penalty, whose sum is below 0, was scored 0.
C2_Witness ==
    /\ pc = "built"
    /\ firstPass[1].type = "card"
    /\ LET b == firstPass[1].value.score_breakdown
       IN  /\ Len(b.matched_avoid_tags) = 7
           /\ b.detour_penalty = DETOUR_PENALTY_MAX
           /\ b.base + b.boost + b.rarity_bonus + b.novelty_bonus
              - b.avoid_penalty - b.detour_penalty < 0
    /\ firstPass[1].value.score = 0

\* C7 as stated: if no candidate of the batch has a confirmed flavor for
\* today, at least one has a forecast prediction and include_estimated was not
\* requested, the batch is re-run with the fallback and the response has at
\* least one card with source 'estimated', for any exclude/boost/avoid tags.
C7_FallbackYieldsEstimate ==
    (/\ response.status = 200
     /\ ~response.query.include_estimated
     /\ \A slug \in Range(response.query.slugs) : flavorCache[slug].title = ""
     /\ \E slug \in Range(response.query.slugs) : forecasts[slug] # "")
    => /\ NeedsFallback(firstPass, FALSE)
       /\ \E i \in 1..Len(response.cards) : response.cards[i].source = "estimated"

\* C7, amended: if no candidate of the batch has a confirmed flavor for today,
\* at least one has a forecast prediction whose flavor carries none of the
\* requested hard-exclude tags, and include_estimated was not requested, the
\* batch is re-run with the fallback and the response has at least one card
\* with source 'estimated'.
C7_FallbackYieldsEstimateUnlessExcluded ==
    (/\ response.status = 200
     /\ ~response.query.include_estimated
     /\ \A slug \in Range(response.query.slugs) : flavorCache[slug].title = ""
     /\ \E slug \in Range(response.query.slugs) :
            /\ forecasts[slug] # ""
            /\ extractFlavorTags(forecasts[slug], {})
                   \cap Range(response.query.exclude) \cap HARD_EXCLUDE_TAGS = {})
    => /\ NeedsFallback(firstPass, FALSE)
       /\ \E i \in 1..Len(response.cards) : response.cards[i].source = "estimated"

\* C7 witness: a request excluding cheesecake, one store forecast Raspberry
\* Cheesecake and the other Vanilla, no confirmed flavor: the fallback ran and
\* the response has the Vanilla estimate alone.
C7_Witness ==
    /\ response.status = 200
    /\ ~response.query.include_estimated
    /\ "cheesecake" \in Range(response.query.exclude)
    /\ \A slug \in Range(response.query.slugs) : flavorCache[slug].title = ""
    /\ \E slug \in Range(response.query.slugs) :
            forecasts[slug] = "Raspberry Cheesecake"
    /\ NeedsFallback(firstPass, FALSE)
    /\ Len(response.cards) = 1
    /\ response.cards[1].source = "estimated"
    /\ response.cards[1].flavor = "Vanilla"

\* The confirmed cards among the results of a pass.
ConfirmedCards(results) ==
    {i \in 1..Len(results) :
        results[i].type = "card" /\ results[i].value.source = "confirmed"}

\* C8: the estimated fallback is all-or-nothing: for a request without
\* include_estimated, store data unchanged during the request, all cards of the
\* response have the same source; if the first pass produced a confirmed card
\* no card is estimated, and estimated cards appear only when the first pass
\* produced no confirmed card.
C8_AllOrNothingFallback ==
    (/\ response.status = 200
     /\ ~response.query.include_estimated
     /\ published = {})
    => /\ \A i, j \in 1..Len(response.cards) :
            response.cards[i].source = response.cards[j].source
       /\ ConfirmedCards(firstPass) # {} =>
            \A i \in 1..Len(response.cards) : response.cards[i].source # "estimated"
       /\ (\E i \in 1..Len(response.cards) : response.cards[i].source = "estimated")
            => ConfirmedCards(firstPass) = {}

\* C8 witness: a store with a confirmed flavor next to a store that has only a
\* forecast: the response has the confirmed card and no estimate for the other.
C8_Witness ==
    /\ response.status = 200
    /\ ~response.query.include_estimated
    /\ published = {}
    /\ ConfirmedCards(firstPass) # {}
    /\ \E slug \in Range(response.query.slugs) :
            flavorCache[slug].title = "" /\ forecasts[slug] # ""
    /\ Len(response.cards) = 1
    /\ response.cards[1].source = "confirmed"

\* The window dates with no observation, and those that begin a maximal run of
\* consecutive missing dates.
MissingDates == {d \in WindowDates : \A r \in snapshots : r.date # d}
RunStarts == {d \in MissingDates : d - 1 \notin MissingDates}

\* C11: the reliability score equals
\*   clamp(1 - (0.4 missing_rate + 0.3 min(lag_avg_hours/24, 1)
\*              + 0.3 min(recovery_avg_days/7, 1)), 0, 1)
\* rounded to 4 decimals, missing_rate being the fraction of the 30 window dates
\* with no observation and recovery_avg_days the mean length of the maximal runs
\* of consecutive missing window dates (0 without a missing date, a run open at
\* the window end counted); 30 of 30 days present with lag 4h and no gaps gives
\* missing_rate 0, score 0.95 and tier 'confirmed'.  The lags averaged are those
\* of the observations the engine read (24h when none has one).
C11_ScoreFormula ==
    /\ reliability.kind = "record" =>
        LET lagged == LagRows(QuerySnapshots(snapshots))
            c == IF lagged = {} THEN 1 ELSE Cardinality(lagged)
            lagSum == IF lagged = {} THEN LAG_WORST_HOURS ELSE totalLagHours(lagged)
            m == Cardinality(MissingDates)
            g == IF RunStarts = {} THEN 1 ELSE Cardinality(RunStarts)
            \* the three terms over the common denominator 30 * c * 7 * g, in
            \* ten-thousandths: the sum of the run lengths is m
            den == 30 * c * 7 * g
            missingTerm == 4000 * m * c * 7 * g
            lagTerm == 125 * Min(lagSum, 24 * c) * 30 * 7 * g
            recoveryTerm == 3000 * Min(m, 7 * g) * 30 * c
            exact == Max(0, Min(10000 * den,
                                10000 * den - (missingTerm + lagTerm + recoveryTerm)))
            score == reliability.reliability_score
        IN  /\ 2 * den * score - den <= 2 * exact
            /\ 2 * exact <= 2 * den * score + den
    /\ (reliability.kind = "record" /\ snapshots = DenseTable({}, 4)) =>
        /\ reliability.missing_window_rate = 0
        /\ reliability.reliability_score = 9500
        /\ reliability.reliability_tier = "confirmed"

\* C11 witness: a record for a store with two runs of missing dates, the second
\* still open today, scored strictly inside the interval.
C11_Witness ==
    /\ reliability.kind = "record"
    /\ 0 \in MissingDates
    /\ Cardinality(RunStarts) = 2
    /\ reliability.reliability_score > 0
    /\ reliability.reliability_score < 10000

\* The Certainty Tier Policy applied to a card of a store.
PolicyTier(card) ==
    determineCertaintyTier([hasConfirmed |-> card.source = "confirmed",
                            hasForecast |-> card.source = "estimated",
                            probability |-> 0, historyDepth |-> 0,
                            reliabilityTier |-> storeReliability[card.slug]])

\* C12: each card's certainty tier is the Certainty Tier Policy applied to the
\* candidate with its store's reliability tier: a card whose flavor comes from
\* today's confirmed schedule at a store whose reliability tier is 'watch' or
\* 'unreliable' has certainty_tier 'watch', not 'confirmed'.
C12_CardTierFollowsPolicy ==
    \A i \in 1..Len(firstPass) :
        firstPass[i].type = "card" =>
            LET card == firstPass[i].value
            IN  /\ card.certainty_tier = PolicyTier(card)
                /\ (/\ card.source = "confirmed"
                    /\ storeReliability[card.slug] \in {"watch", "unreliable"})
                   => card.certainty_tier = "watch"

\* The terms of a card's score as the scoring rule states them, from the
\* request, the flavor's tags, the store's history and the store's distance.
ScoreTerms(card, query) ==
    LET tags == extractFlavorTags(card.flavor, card.description)
        history == cadenceDb.dates[<<card.slug, card.flavor>>]
        lastAppearance == history[1]
        avgGap == IF card.rarity.avg_gap_days = Null THEN 0
                  ELSE card.rarity.avg_gap_days
        distance == IF query.location = NoLocation THEN Null
                    ELSE STORE_DISTANCE(card.slug)
    IN  [base |-> 50,
         boost |-> 12 * Cardinality(Range(query.boost) \cap tags),
         rarity_bonus |-> Max(0, Min(18, RoundDiv(avgGap, 7))),
         novelty_bonus |-> IF history = <<>> \/ 0 - lastAppearance >= 30
                           THEN 10 ELSE 0,
         avoid_penalty |-> 8 * Cardinality(Range(query.avoid) \cap tags),
         detour_penalty |-> IF distance = Null THEN 0
                            ELSE Max(0, Min(20, RoundDiv(15 * distance, 100)))]

\* C13: for every non-excluded candidate, score = clamp(50 + 12 |boost tags of
\* the flavor| + rarity_bonus + novelty_bonus - 8 |avoid tags of the flavor|
\* - detour_penalty, 0, 100), with rarity_bonus = clamp(round(avg_gap_days/7),
\* 0, 18), novelty_bonus = 10 exactly when the flavor never appeared at the
\* store or has not appeared there in >= 30 days, and detour_penalty =
\* clamp(round(1.5 distance_miles), 0, 20) when the location and the store's
\* coordinates are known, else 0; score_breakdown holds the terms of the sum.
C13_ScoreIsSumOfTerms ==
    response.status = 200 =>
        \A i \in 1..Len(response.cards) :
            LET card == response.cards[i]
                t == ScoreTerms(card, response.query)
                b == card.score_breakdown
            IN  /\ card.score =
                       Max(0, Min(100, t.base + t.boost + t.rarity_bonus
                                       + t.novelty_bonus - t.avoid_penalty
                                       - t.detour_penalty))
                /\ b.base = t.base
                /\ b.boost = t.boost
                /\ b.rarity_bonus = t.rarity_bonus
                /\ b.novelty_bonus = t.novelty_bonus
                /\ b.avoid_penalty = t.avoid_penalty
                /\ b.detour_penalty = t.detour_penalty

(***************************************************************************)
(* Flavor signals (metrics.js)                                             *)
(***************************************************************************)

\* The flavor history handleSignals hands to the detectors.
SignalHistory == buildFlavorHistory(QuerySignalRows(flavorRows))

\* handleSignals answered with the signals of a store that has history.
SignalsAnswered == signalsResponse.status = 200 /\ flavorRows # {}

\* The signals of one type and flavor in a list.
SignalsOf(signals, type, flavor) ==
    {k \in 1..Len(signals) : signals[k].type = type /\ signals[k].flavor = flavor}

\* C14: detectOverdue emits an overdue signal for a flavor iff the flavor has
\* at least 3 appearance dates, the mean gap between consecutive dates
\* (latest - earliest over n - 1 gaps) is >= 2, and ratio = days since the
\* latest / mean gap is >= 1.5; the score is ratio; a flavor below 3
\* appearances yields no signal.  An overdue signal of the response is one of
\* these.
C14_OverdueIffRatio ==
    SignalsAnswered =>
        LET signals == detectOverdue(SignalHistory)
        IN  \A i \in 1..Len(SignalHistory) :
                LET entry == SignalHistory[i]
                    n == Len(entry.dates)
                    dates == Range(entry.dates)
                    latest == CHOOSE d \in dates : \A e \in dates : e <= d
                    earliest == CHOOSE d \in dates : \A e \in dates : d <= e
                    span == latest - earliest
                    daysSince == 0 - latest
                    fires == /\ n >= 3
                             /\ span >= 2 * (n - 1)
                             /\ 2 * daysSince * (n - 1) >= 3 * span
                    found == SignalsOf(signals, "overdue", entry.flavor)
                IN  /\ fires <=> found # {}
                    /\ Cardinality(found) <= 1
                    /\ \A k \in found :
                          RatEq(signals[k].score, Rat(daysSince * (n - 1), span))
                    /\ SignalsOf(signalsResponse.signals, "overdue", entry.flavor) # {}
                          => fires

\* An answer with an overdue flavor seen every 10 days and last 20 days ago:
\* score 2.0.
C14_Witness ==
    /\ SignalsAnswered
    /\ \E k \in 1..Len(signalsResponse.signals) :
          LET signal == signalsResponse.signals[k]
          IN  /\ signal.type = "overdue"
              /\ signal.evidence.avg_gap_days = 10
              /\ signal.evidence.days_since = 20
              /\ RatEq(signal.score, Rat(2, 1))

\* C15: detectDowPatterns emits a dow_pattern signal for a flavor iff it has
\* n >= 7 appearances and the chi-squared statistic, the sum over the 7
\* weekdays of (count - n/7)^2 / (n/7) = (7 count - n)^2 / (7 n), is >= 12.592;
\* the peak weekday has the maximum count and the score is the statistic.  A
\* dow_pattern signal of the response is one of these.
C15_DowPatternIffChiSquared ==
    SignalsAnswered =>
        LET signals == detectDowPatterns(SignalHistory)
            OnWeekday(dates, dow) ==
                Cardinality({i \in 1..Len(dates) : getUTCDay(dates[i]) = dow})
        IN  \A i \in 1..Len(SignalHistory) :
                LET entry == SignalHistory[i]
                    n == Len(entry.dates)
                    dev(dow) == (7 * OnWeekday(entry.dates, dow) - n)
                                * (7 * OnWeekday(entry.dates, dow) - n)
                    chi == dev(0) + dev(1) + dev(2) + dev(3) + dev(4) + dev(5) + dev(6)
                    fires == n >= 7 /\ 1000 * chi >= 12592 * 7 * n
                    found == SignalsOf(signals, "dow_pattern", entry.flavor)
                IN  /\ fires <=> found # {}
                    /\ Cardinality(found) <= 1
                    /\ \A k \in found :
                          /\ RatEq(signals[k].score, Rat(chi, 7 * n))
                          /\ signals[k].evidence.peak_dow \in 0..6
                          /\ \A dow \in 0..6 :
                                OnWeekday(entry.dates, dow)
                                    <= OnWeekday(entry.dates, signals[k].evidence.peak_dow)
                          /\ signals[k].evidence.peak_name
                                = DOW_NAMES[signals[k].evidence.peak_dow + 1]
                    /\ SignalsOf(signalsResponse.signals, "dow_pattern", entry.flavor) # {}
                          => fires

\* An answer with a flavor served on four Tuesdays, two Mondays and one
\* Saturday: statistic 14, peak Tuesday.
C15_Witness ==
    /\ SignalsAnswered
    /\ \E k \in 1..Len(signalsResponse.signals) :
          LET signal == signalsResponse.signals[k]
          IN  /\ signal.type = "dow_pattern"
              /\ signal.evidence.total = 7
              /\ signal.evidence.peak_name = "Tuesday"
              /\ RatEq(signal.score, Rat(14, 1))

\* C16: detectSeasonal emits a seasonal signal for a flavor iff it has at
\* least 6 appearances and concentration = (maximum over the 12 cyclic windows
\* of 3 consecutive months, Nov-Dec-Jan and Dec-Jan-Feb included, of the
\* appearances in the window) / (appearances) is >= 0.5; the peak months are
\* a window that attains the maximum and the score is concentration.  A
\* seasonal signal of the response is one of these.
C16_SeasonalIffConcentrated ==
    SignalsAnswered =>
        LET signals == detectSeasonal(SignalHistory)
            InWindow(dates, start) ==
                Cardinality({i \in 1..Len(dates) :
                                getUTCMonth(dates[i])
                                    \in {start, (start + 1) % 12, (start + 2) % 12}})
        IN  \A i \in 1..Len(SignalHistory) :
                LET entry == SignalHistory[i]
                    n == Len(entry.dates)
                    most == CHOOSE c \in {InWindow(entry.dates, start) : start \in 0..11} :
                                \A start \in 0..11 : InWindow(entry.dates, start) <= c
                    fires == n >= 6 /\ 2 * most >= n
                    found == SignalsOf(signals, "seasonal", entry.flavor)
                IN  /\ fires <=> found # {}
                    /\ Cardinality(found) <= 1
                    /\ \A k \in found :
                          /\ RatEq(signals[k].score, Rat(most, n))
                          /\ \E start \in 0..11 :
                                /\ InWindow(entry.dates, start) = most
                                /\ signals[k].evidence.peak_months
                                     = <<MONTH_NAMES[start + 1],
                                         MONTH_NAMES[((start + 1) % 12) + 1],
                                         MONTH_NAMES[((start + 2) % 12) + 1]>>
                    /\ SignalsOf(signalsResponse.signals, "seasonal", entry.flavor) # {}
                          => fires

\* An answer with a flavor seen six times in the year, three of them in
\* November, December and January.
C16_Witness ==
    /\ SignalsAnswered
    /\ \E k \in 1..Len(signalsResponse.signals) :
          LET signal == signalsResponse.signals[k]
          IN  /\ signal.type = "seasonal"
              /\ signal.evidence.peak_months = <<"Nov", "Dec", "Jan">>
              /\ signal.evidence.total = 6
              /\ RatEq(signal.score, Rat(1, 2))

\* C17: an active_streak signal is emitted for a flavor only when its most
\* recent appearance is within 1.5 days of today, and streak_days (>= 2) is
\* the number of consecutive calendar days, ending at that most recent
\* appearance, on which the flavor was served; histories with dates after
\* today included.
C17_StreakEndsNearToday ==
    SignalsAnswered =>
        \A k \in 1..Len(signalsResponse.signals) :
            LET signal == signalsResponse.signals[k]
                dates == UNION {Range(SignalHistory[i].dates) :
                                   i \in {j \in 1..Len(SignalHistory) :
                                              SignalHistory[j].flavor = signal.flavor}}
                last == CHOOSE d \in dates : \A e \in dates : e <= d
                consecutive == CHOOSE m \in 0..Cardinality(dates) :
                                   /\ \A j \in 0..(m - 1) : last - j \in dates
                                   /\ last - m \notin dates
            IN  signal.type = "active_streak" =>
                    /\ 2 * last <= 3
                    /\ 2 * last >= -3
                    /\ signal.evidence.streak_days >= 2
                    /\ signal.evidence.streak_days = consecutive

\* The options handleSignals computed for the request it answered.
AnsweredOpts == SignalOpts(QuerySignalRows(flavorRows), signalsRequest)

\* C18: a rare_find signal is produced iff today's flavor is known and the
\* number of stores serving it is a number between 1 and 3; its score is
\* 1/count, strictly higher for a smaller count; a count of 0, of 4 or more,
\* or an unknown count produces no signal.
C18_RareFindIffFewStores ==
    SignalsAnswered =>
        LET rare == detectRareFind(AnsweredOpts.todayFlavor,
                                   AnsweredOpts.todayFlavorStoreCount)
            servedToday == {r.flavor : r \in {x \in flavorRows : x.date = 0}}
            count == signalsRequest.count.cnt
            fires == /\ servedToday # {}
                     /\ signalsRequest.count.kind = "ok"
                     /\ count >= 1
                     /\ count <= 3
            returned == {k \in 1..Len(signalsResponse.signals) :
                            signalsResponse.signals[k].type = "rare_find"}
        IN  /\ fires <=> rare # <<>>
            /\ rare # <<>> =>
                  /\ Len(rare) = 1
                  /\ rare[1].type = "rare_find"
                  /\ rare[1].flavor \in servedToday
                  /\ RatEq(rare[1].score, Rat(1, count))
                  /\ \A more \in (count + 1)..3 : RatLess(Rat(1, more), rare[1].score)
            /\ \A k \in returned : fires /\ signalsResponse.signals[k] = rare[1]
            /\ fires /\ Len(DetectedSignals(AnsweredOpts)) <= AnsweredOpts.limit
                  => returned # {}

\* An answer with a rare find served at 3 stores today.
C18_Witness ==
    /\ SignalsAnswered
    /\ signalsRequest.count = [kind |-> "ok", cnt |-> 3]
    /\ \E k \in 1..Len(signalsResponse.signals) :
          LET signal == signalsResponse.signals[k]
          IN  /\ signal.type = "rare_find"
              /\ signal.evidence.store_count = 3
              /\ RatEq(signal.score, Rat(1, 3))

C20_LimitClamped ==
    SignalsAnswered /\ signalsRequest.limit.kind \in {"none", "int"} =>
        LET supplied == signalsRequest.limit
            effective == IF supplied.kind = "none" THEN 5
                         ELSE Max(1, Min(20, supplied.value))
        IN  /\ AnsweredOpts.limit = effective
            /\ Len(signalsResponse.signals) <= effective

(***************************************************************************)
(* Trip planning: ordering and validation (drive.js)                       *)
(***************************************************************************)

\* C21: with sort=detour the returned cards are ordered by distance_miles
\* non-decreasing, and every card with an unknown distance comes after every
\* card with a known distance, whatever the known distances are.
C21_DetourOrder ==
    response.status = 200 /\ response.query.sort = "detour" =>
        \A i, j \in 1..Len(response.cards) :
            i < j =>
                LET before == response.cards[i].distance_miles
                    after == response.cards[j].distance_miles
                IN  /\ before # Null /\ after # Null => before <= after
                    /\ ~(before = Null /\ after # Null)

\* C22: a request whose slugs parameter names fewer than 2 or more than 5
\* store identifiers, whatever mix of valid, unknown or repeated identifiers
\* it lists, is rejected with a 400 error before any flavor, forecast or
\* history fetch is issued.
C22_SlugCountRejected ==
    LET named == SelectSeq(request.slugs, LAMBDA slug : slug # "")
    IN  pc # "idle" /\ (Len(named) < 2 \/ Len(named) > 5) =>
            /\ pc = "done"
            /\ response.status = 400
            /\ response.error = "slugs"
            /\ firstPass = <<>>

\* C23: a request whose sort parameter is not one of match, detour, rarity,
\* eta is rejected with an error before any computation or I/O.
C23_UnknownSortRejected ==
    pc # "idle" /\ request.sort # "" /\ LowerCase(request.sort) \notin SORT_MODES =>
        /\ pc = "done"
        /\ response.status = 400
        /\ firstPass = <<>>

\* C24: in handleDrive the per-candidate fetches are individually
\* fault-isolated: when fetching one candidate's flavor schedule fails, that
\* candidate alone degrades (it is listed as excluded) and the response
\* still succeeds with the other candidates' results.
C24_CandidateFaultIsolated ==
    LET query == ParsedQuery(request)
        valid == /\ Len(query.slugs) >= MIN_SLUGS
                 /\ Len(query.slugs) <= MAX_SLUGS
                 /\ ~(request.location # NoLocation /\ query.location = NoLocation)
    IN  pc \notin {"idle", "fallback"} /\ valid =>
            /\ pc = "done"
            /\ response.status = 200
            /\ \A slug \in Range(query.slugs) :
                  flavorCache[slug].status = "unavailable" =>
                      \E i \in 1..Len(response.excluded) : response.excluded[i].slug = slug

\* C27: in every response each requested valid store appears exactly once
\* across cards and excluded, never in both lists and never in neither, also
\* when the estimated-fallback pass replaces the first pass's results.
C27_EachStoreOnce ==
    response.status = 200 =>
        \A slug \in Range(response.query.slugs) :
            Cardinality({i \in 1..Len(response.cards) : response.cards[i].slug = slug})
            + Cardinality({i \in 1..Len(response.excluded) :
                              response.excluded[i].slug = slug}) = 1

(***************************************************************************)
(* Signals: failure of the history query (metrics.js)                      *)
(***************************************************************************)

\* C25: when the history query throws in handleSignals, the failure becomes
\* the same no-data result as an empty history (signals: []) and the
\* response succeeds; only the absence of the database gives a 503.
C25_QueryFailureIsNoData ==
    signalsResponse.status # 0 /\ signalsRequest.slug # "" =>
        /\ signalsRequest.db = "failing" =>
              /\ signalsResponse.status = 200
              /\ signalsResponse.signals = <<>>
        /\ signalsResponse.status = 503 <=> signalsRequest.db = Absent

(***************************************************************************)
(* Reliability: coverage (reliability.js)                                  *)
(***************************************************************************)

\* C30: the reliability score is monotone in coverage: adding an observation
\* for a window date that was missing, with a capture lag equal to the
\* current average lag, never lowers the store's reliability score, for
\* every pattern of present and missing dates in the window.
C30_CoverageMonotone ==
    [][BackfillSnapshot =>
          computeReliability("bound", snapshots').reliability_score
              >= computeReliability("bound", snapshots).reliability_score]_vars


\* C26: with at least one slug and a batch size of at least 1, the cursor
\* that getReliabilityBatch returns is always in [0, N); a cursor at or past
\* the end gets an empty batch and 0; and from cursor 0 the batches are
\* consecutive, disjoint, and cover every slug exactly once before the
\* cursor is 0 again.
C26_CursorCoversEverySlug ==
    (cron.db = "bound" /\ cron.n >= 1 /\ cron.batches # <<>>) =>
        LET seen == Flatten(cron.batches) IN
        /\ cron.cursor \in 0..(cron.n - 1)
        /\ cron.start >= cron.n => (cron.batches = << <<>> >> /\ cron.cursor = 0)
        /\ cron.start = 0 =>
               /\ \A i \in 1..Len(seen) : seen[i] = i
               /\ \A k \in 1..Len(cron.batches) : cron.batches[k] # <<>>
               /\ IF cron.wrapped THEN Len(seen) = cron.n
                  ELSE cron.cursor = Len(seen) /\ Len(seen) < cron.n

C26_Witness ==
    /\ cron.db = "bound" /\ cron.n = 5 /\ cron.batchSize = 2 /\ cron.start = 0
    /\ cron.wrapped /\ Len(cron.batches) = 3

\* C29: queryDatesForSlugs queries the slugs in chunks of at most 98, so no
\* query binds more than 99 parameters; every slug is in exactly one chunk;
\* and when a chunk's query fails the dates of all other chunks are still
\* returned and nothing is thrown.
C29_ChunkedWithinBindLimit ==
    (bulk.result.kind # Pending /\ bulk.db = "bound") =>
        LET queries == bulk.result.queries
            queried == Flatten([k \in 1..Len(queries) |-> queries[k].batch])
            returned == bulk.result.allDates
            answered == {slug \in 1..bulk.n : (((slug - 1) \div 98) + 1) \notin bulk.failing}
        IN  /\ bulk.result.kind = "returned"
            /\ \A k \in 1..Len(queries) :
                   Len(queries[k].batch) \in 1..98 /\ queries[k].bound <= 99
            /\ Len(queried) = bulk.n
            /\ \A i \in 1..bulk.n : queried[i] = i
            /\ \A date \in {0 - d : d \in 0..4} :
                   Cardinality({i \in 1..Len(returned) : returned[i] = date})
                       = Cardinality({slug \in answered : ServedOn(slug) = date})
            /\ Len(returned) = Cardinality(answered)

C29_Witness ==
    /\ bulk.result.kind = "returned" /\ bulk.db = "bound"
    /\ bulk.n = 197 /\ bulk.failing = {2}
    /\ Len(bulk.result.queries) = 3 /\ Len(bulk.result.allDates) = 99


\* C28: under any interleaving of concurrent calendar requests at most 50
\* upstream fetches succeed while one 'meta:fetch-count' counter lives, and
\* every successful fetch has raised the counter by exactly 1 once the
\* requests have ended.
C28_FetchBudgetNeverExceeded ==
    /\ upstream.succeeded <= MAX_DAILY_FETCHES
    /\ (\A r \in DOMAIN fetcher : fetcher[r].pc \in {"done", "rejected", "failed"}) =>
           kv.count = upstream.succeeded


====
